---- MODULE Spec2Model ----
(***************************************************************************)
(* Catalog manager of n-clone (src/src/database.py) over the schema of     *)
(* src/src/models: the tables doujinshi, page, the six taxonomy tables and *)
(* the six membership tables, the count triggers, and the manager          *)
(* operations, each one transaction.                                       *)
(*                                                                         *)
(* A text value is a sequence of one-character strings.  A value that is   *)
(* not a string (None, a number) is a one-element sequence holding a       *)
(* multi-character tag, which no text can equal.                           *)
(***************************************************************************)
EXTENDS Integers, Sequences, FiniteSets, TLC

VARIABLES doujinshi, page, item, m2m, pre, call, status, result, nops

vars == <<doujinshi, page, item, m2m, pre, call, status, result, nops>>

(***************************************************************************)
(* Bounds                                                                  *)
(***************************************************************************)
MaxOps == 3

(***************************************************************************)
(* Statuses, categories                                                    *)
(***************************************************************************)
OK == "OK"
INTEGRITY_ERROR == "INTEGRITY_ERROR"
VALIDATION_FAILED == "VALIDATION_FAILED"
NOT_FOUND == "NOT_FOUND"
ALREADY_EXISTS == "ALREADY_EXISTS"
EXCEPTION == "EXCEPTION"

\* DatabaseStatus.is_fatal: the value each member is declared with
is_fatal(st) == st \in {EXCEPTION}

DatabaseStatus == {OK, INTEGRITY_ERROR, VALIDATION_FAILED, NOT_FOUND, ALREADY_EXISTS, EXCEPTION}

\* table names of the six taxonomy models, in the order of the relations list
\* of insert_doujinshi
tbl_names == <<"parody", "character", "tag", "artist", "circle", "language">>

Categories == {tbl_names[i] : i \in 1..Len(tbl_names)}

\* key of a category in a doujinshi dict
relation_name == [c \in Categories |->
    CASE c = "parody" -> "parodies"
      [] c = "character" -> "characters"
      [] c = "tag" -> "tags"
      [] c = "artist" -> "artists"
      [] c = "circle" -> "groups"
      [] c = "language" -> "languages"]

\* the taxonomy tables that declare a count column: Artist, Group, and Language
\* (the Language model is described in spec.md 3.3); Parody, Character and Tag
\* declare id and name only
LanguageCountColumn == {"language"}

HasCountColumn == {"artist", "circle"} \cup LanguageCountColumn

(***************************************************************************)
(* Text                                                                    *)
(***************************************************************************)
None == <<"None">>

\* values that are not strings
NonStrings == {None, <<"123">>, <<"True">>}

IsStr(v) == v \notin NonStrings

Whitespace == {" ", "\t", "\n"}

\* str.lower on the letters the inputs use
lower(ch) ==
    CASE ch = "A" -> "a" [] ch = "B" -> "b" [] ch = "C" -> "c" [] ch = "E" -> "e" [] ch = "P" -> "p"
      [] ch = "T" -> "t" [] OTHER -> ch

lower_str(s) == [i \in 1..Len(s) |-> lower(s[i])]

RECURSIVE lstrip(_)
lstrip(s) == IF s # <<>> /\ Head(s) \in Whitespace THEN lstrip(Tail(s)) ELSE s

RECURSIVE rstrip(_)
rstrip(s) == IF s # <<>> /\ s[Len(s)] \in Whitespace THEN rstrip(SubSeq(s, 1, Len(s) - 1)) ELSE s

strip(s) == rstrip(lstrip(s))

\* " ".join(s.split()) of a stripped string: every run of whitespace becomes one space
RECURSIVE collapse(_)
collapse(s) ==
    IF s = <<>> THEN <<>>
    ELSE IF Head(s) \in Whitespace
         THEN <<" ">> \o collapse(lstrip(s))
         ELSE <<Head(s)>> \o collapse(Tail(s))

\* pathlib.Path(s).as_posix() on a POSIX host: repeated and trailing slashes and
\* "." components are dropped, the empty path is "."
RECURSIVE posix_parts(_, _)
posix_parts(s, cur) ==
    IF s = <<>> THEN (IF cur = <<>> \/ cur = <<".">> THEN <<>> ELSE <<cur>>)
    ELSE IF Head(s) = "/"
         THEN (IF cur = <<>> \/ cur = <<".">> THEN <<>> ELSE <<cur>>) \o posix_parts(Tail(s), <<>>)
         ELSE posix_parts(Tail(s), Append(cur, Head(s)))

RECURSIVE join_parts(_)
join_parts(ps) ==
    IF ps = <<>> THEN <<>>
    ELSE IF Len(ps) = 1 THEN ps[1]
    ELSE ps[1] \o <<"/">> \o join_parts(Tail(ps))

as_posix(s) ==
    LET body == join_parts(posix_parts(s, <<>>))
        root == IF s # <<>> /\ Head(s) = "/" THEN <<"/">> ELSE <<>>
    IN IF root \o body = <<>> THEN <<".">> ELSE root \o body

\* Base.validate_and_normalize_string: [ok, value]; ok FALSE is the ValueError
validate_and_normalize_string(key, value) ==
    IF ~IsStr(value) THEN [ok |-> FALSE, value |-> value]
    ELSE IF value = <<>> \/ strip(value) = <<>> THEN [ok |-> FALSE, value |-> value]
    ELSE LET normalized == collapse(strip(value))
             lowered == IF key = "name" THEN lower_str(normalized) ELSE normalized
         IN [ok |-> TRUE, value |-> IF key = "path" THEN as_posix(lowered) ELSE lowered]

(***************************************************************************)
(* Tables.  A database D is a record of the four table families:           *)
(*   D.doujinshi  rows [id, full_name, full_name_original, pretty_name,    *)
(*                 pretty_name_original, path, note]                       *)
(*   D.page       rows [doujinshi_id, order_number, filename]              *)
(*   D.item[c]    rows [id, name, count] (no count where c has no column)  *)
(*   D.m2m[c]     rows [doujinshi_id, item_id]                             *)
(***************************************************************************)
DB == [doujinshi |-> doujinshi, page |-> page, item |-> item, m2m |-> m2m]

text_columns == {"full_name", "full_name_original", "pretty_name", "pretty_name_original", "path", "note"}

\* length(trim(col, ' \n\t\r\b\v\f')) > 0; a NULL column passes a CHECK
check_not_blank(v) == v = None \/ strip(v) # <<>>

\* constraints of the doujinshi table on a row that is inserted or rewritten,
\* against the other rows of the table
doujinshi_row_ok(row, others) ==
    /\ row.full_name # None /\ row.path # None
    /\ \A col \in text_columns : check_not_blank(row[col])
    /\ \A o \in others : o.id # row.id /\ o.path # row.path

\* the page table without its UniqueConstraint on (doujinshi_id, filename)
page_rows_ok_without_unique_filename(rows) ==
    /\ \A r \in rows : r.filename # None /\ r.filename # <<>> /\ r.order_number > 0
    /\ \A r1, r2 \in rows : r1 # r2 => r1.order_number # r2.order_number

\* constraints of the page table on the rows of one work
page_rows_ok(rows) ==
    /\ \A r \in rows : r.filename # None /\ r.filename # <<>> /\ r.order_number > 0
    /\ \A r1, r2 \in rows : r1 # r2 => r1.filename # r2.filename /\ r1.order_number # r2.order_number

\* a taxonomy row as the table declares it
item_row(c, id, name) ==
    IF c \in HasCountColumn THEN [id |-> id, name |-> name, count |-> 0] ELSE [id |-> id, name |-> name]

\* the next rowid of an INTEGER PRIMARY KEY table
max_id(rows) ==
    IF rows = {} THEN 0
    ELSE LET r == CHOOSE x \in rows : \A y \in rows : y.id <= x.id IN r.id

\* the lookup comparing the normalized form of the name
item_id_by_normalized_name(D, c, name) ==
    LET value == validate_and_normalize_string("name", name).value
    IN IF \E r \in D.item[c] : r.name = value
       THEN (CHOOSE r \in D.item[c] : r.name = value).id
       ELSE 0

\* select(model.id).where(model.name == name): the id, or 0 for no row
item_id_by_name(D, c, name) ==
    IF \E r \in D.item[c] : r.name = name
    THEN (CHOOSE r \in D.item[c] : r.name = name).id
    ELSE 0

\* `if session.scalar(select(Doujinshi.id).where(Doujinshi.id == doujinshi_id))`:
\* the scalar is the id itself, and the id 0 is falsy
doujinshi_scalar_truthy(D, doujinshi_id) ==
    (\E d \in D.doujinshi : d.id = doujinshi_id) /\ doujinshi_id # 0

\* the body of trig_a_i_incr_<c>_count and trig_a_d_decr_<c>_count compiles
\* only against a table that has the count column
trigger_compiles(c) == c \in HasCountColumn

\* trig_a_i_incr_<c>_count: UPDATE <c> SET count = count + 1 WHERE id = NEW.<c>_id
trig_incr(c, rows, item_id) ==
    {IF r.id = item_id THEN [r EXCEPT !.count = @ + 1] ELSE r : r \in rows}

\* trig_a_d_decr_<c>_count: UPDATE <c> SET count = count - 1 WHERE id = OLD.<c>_id
trig_decr(c, rows, item_id) ==
    {IF r.id = item_id THEN [r EXCEPT !.count = @ - 1] ELSE r : r \in rows}

\* the decrement trigger fired once for every deleted membership row
RECURSIVE trig_decr_all(_, _, _)
trig_decr_all(c, rows, deleted) ==
    IF deleted = {} THEN rows
    ELSE LET m == CHOOSE x \in deleted : TRUE
         IN trig_decr_all(c, trig_decr(c, rows, m.item_id), deleted \ {m})

\* a committed transaction, and one that ends without commit (the session
\* closes and the connection rolls back to D)
Commit(W, st) == [status |-> st, db |-> W]
Rollback(D, st) == [status |-> st, db |-> D]

\* a call that ends in an exception the manager does not catch: the caller gets
\* no status, and a session that was open closes without commit
Raised(D, error) == [status |-> error, db |-> D]

(***************************************************************************)
(* Taxonomy insert                                                         *)
(***************************************************************************)
\* _insert_item whose validator lets a blank name through
_insert_item_accepts_blank(D, c, name) ==
    LET value == IF IsStr(name) THEN lower_str(collapse(strip(name))) ELSE name
    IN IF ~IsStr(name) THEN Rollback(D, EXCEPTION)
       ELSE IF \E r \in D.item[c] : r.name = value THEN Rollback(D, ALREADY_EXISTS)
       ELSE Commit([D EXCEPT !.item[c] = @ \cup {item_row(c, max_id(@) + 1, value)}], OK)

_insert_item(D, c, name) ==
    LET v == validate_and_normalize_string("name", name)
    IN IF ~v.ok THEN Rollback(D, EXCEPTION)
       ELSE IF \E r \in D.item[c] : r.name = v.value THEN Rollback(D, ALREADY_EXISTS)
       ELSE Commit([D EXCEPT !.item[c] = @ \cup {item_row(c, max_id(@) + 1, v.value)}], OK)

(***************************************************************************)
(* Record validation (src/src/utils.py)                                    *)
(***************************************************************************)
english == <<"e", "n", "g", "l", "i", "s", "h">>
japanese == <<"j", "a", "p", "a", "n", "e", "s", "e">>
chinese == <<"c", "h", "i", "n", "e", "s", "e">>
textless == <<"t", "e", "x", "t", "l", "e", "s", "s">>

VALID_LANGUAGES == {english, japanese, textless, chinese}

Range(seq) == {seq[i] : i \in 1..Len(seq)}

\* len(value) != len(set(value))
has_duplicates(seq) == Cardinality(Range(seq)) # Len(seq)

is_non_empty_str(v) == IsStr(v) /\ strip(v) # <<>>

list_fields == {"parodies", "characters", "tags", "artists", "groups", "languages", "pages"}

scalar_fields == {"pretty_name", "full_name_original", "pretty_name_original", "path"}

\* isinstance(value, list): a value given in place of a list is one of NonStrings
IsList(v) == v \notin NonStrings

\* the Python type of d["id"]: int, unless the dict carries another type name
\* beside a value that is not an int ("bool", "str", "NoneType", "float")
id_type(d) == IF "id_type" \in DOMAIN d THEN d.id_type ELSE "int"

\* the keys validate_doujinshi subscripts without testing for them
subscripted_fields == {"id", "full_name", "path", "tags", "languages", "pages"}

\* the exception validate_doujinshi raises instead of returning, "" for none:
\* KeyError for a subscripted key that is absent, AttributeError for v.lower()
\* or lang.strip() of an element that is not a string, TypeError for a
\* membership test, an iteration or set() over a value that is not iterable
validation_raises(d) ==
    IF \E f \in subscripted_fields : f \notin DOMAIN d THEN "KeyError"
    ELSE IF \E c \in Categories :
                /\ relation_name[c] \in DOMAIN d
                /\ IsList(d[relation_name[c]])
                /\ \E v \in Range(d[relation_name[c]]) : ~IsStr(v)
         THEN "AttributeError"
    ELSE IF d.tags \in NonStrings \ {None} \/ d.languages \in NonStrings \ {None} \/ d.pages \in NonStrings
         THEN "TypeError"
    ELSE ""

\* some error is appended (for a dict on which validate_doujinshi does not raise)
validation_errors(d) ==
    \/ id_type(d) # "int"
    \/ ~is_non_empty_str(d.full_name)
    \/ \E f \in scalar_fields \cup list_fields : f \notin DOMAIN d
    \/ \E f \in list_fields \cap DOMAIN d : IsList(d[f]) /\ d[f] # <<>> /\ has_duplicates(d[f])
    \/ \E c \in Categories :
          /\ relation_name[c] \in DOMAIN d
          /\ IsList(d[relation_name[c]])
          /\ d[relation_name[c]] # [i \in 1..Len(d[relation_name[c]]) |-> lower_str(d[relation_name[c]][i])]
    \/ ~is_non_empty_str(d.path)
    \/ has_duplicates(d.pages)

\* some warning is appended (for a dict on which validate_doujinshi does not raise)
validation_warnings(d) ==
    \/ \E f \in list_fields \cap DOMAIN d :
          ~IsList(d[f]) \/ d[f] = <<>> \/ \E v \in Range(d[f]) : IsStr(v) /\ v # strip(v)
    \/ \E f \in scalar_fields \cap DOMAIN d : ~IsStr(d[f]) \/ d[f] = <<>> \/ d[f] # strip(d[f])
    \/ (is_non_empty_str(d.path) /\ d.path # as_posix(d.path))
    \/ (d.tags # None /\ textless \in Range(d.tags))
    \/ (d.languages # None /\ \E lang \in Range(d.languages) : strip(lang) \notin VALID_LANGUAGES)

\* the decision after the checks: "False", "True", or "prompt" for the input loop
validation_decision(errors, warnings, user_prompt) ==
    IF ~warnings /\ ~errors THEN "True"
    ELSE IF errors THEN "False"
    ELSE IF ~user_prompt THEN "True"
    ELSE "prompt"

\* the input loop taking "y" for "Y"
read_answer_any_case(answer) ==
    [done |-> answer \in {"Y", "n", "y"}, value |-> answer \in {"Y", "y"}]

\* one round of the input loop: [done, value]
read_answer(answer) ==
    [done |-> answer \in {"Y", "n"}, value |-> answer = "Y"]

\* answer is the first input that is exactly "Y" or "n"
validate_doujinshi(d, user_prompt, answer) ==
    IF ~validation_warnings(d) /\ ~validation_errors(d) THEN TRUE
    ELSE IF validation_errors(d) THEN FALSE
    ELSE IF ~user_prompt THEN TRUE
    ELSE answer = "Y"

(***************************************************************************)
(* insert_doujinshi                                                        *)
(***************************************************************************)
\* _add_and_link_item for one category, before the flush: the names found by
\* the batched lookup, the models created for the others, and the error raised
existing_names(D, c, item_names) == {r.name : r \in {x \in D.item[c] : x.name \in Range(item_names)}}

missing_models(D, c, item_names) == Range(item_names) \ existing_names(D, c, item_names)

new_names(D, c, item_names) ==
    {validate_and_normalize_string("name", n).value : n \in missing_models(D, c, item_names)}

\* Model(name=name, count=0) raises TypeError without a count attribute and
\* ValueError for a blank name; existing_models[name] raises KeyError for a
\* submitted name that is neither stored nor the normalized name of a new model
_add_and_link_item_raises(D, c, item_names) ==
    /\ item_names # <<>>
    /\ \/ missing_models(D, c, item_names) # {} /\ c \notin HasCountColumn
       \/ \E n \in missing_models(D, c, item_names) : ~validate_and_normalize_string("name", n).ok
       \/ \E n \in Range(item_names) :
             n \notin existing_names(D, c, item_names) \cup new_names(D, c, item_names)

\* the attributes of SimpleNamespace(**doujinshi) that insert_doujinshi reads
record_fields == text_columns \cup list_fields \cup {"id"}

RECURSIVE Perms(_)
Perms(S) == IF S = {} THEN {<<>>} ELSE UNION {{<<x>> \o q : q \in Perms(S \ {x})} : x \in S}

\* the orders in which the new models of each category can reach the table
\* (missing_models is a set, iterated in hash order): one permutation per
\* category, in the order of tbl_names
RECURSIVE insert_orders_from(_, _, _)
insert_orders_from(D, d, k) ==
    IF k > Len(tbl_names) THEN {<<>>}
    ELSE {<<q>> \o rest : q \in Perms(new_names(D, tbl_names[k], d[relation_name[tbl_names[k]]])),
                          rest \in insert_orders_from(D, d, k + 1)}

insert_orders(D, d) ==
    IF record_fields \subseteq DOMAIN d THEN insert_orders_from(D, d, 1)
    ELSE {[k \in 1..Len(tbl_names) |-> <<>>]}

tbl_index(c) == CHOOSE k \in 1..Len(tbl_names) : tbl_names[k] = c

\* INSERT of the new models of category c in the order ord
RECURSIVE insert_new_items(_, _, _)
insert_new_items(rows, c, ord) ==
    IF ord = <<>> THEN rows
    ELSE insert_new_items(rows \cup {item_row(c, max_id(rows) + 1, Head(ord))}, c, Tail(ord))

\* INSERT of the membership rows of one category, each firing the increment trigger
RECURSIVE insert_links(_, _, _)
insert_links(rows, c, ids) ==
    IF ids = {} THEN rows
    ELSE LET i == CHOOSE x \in ids : TRUE IN insert_links(trig_incr(c, rows, i), c, ids \ {i})

page_rows(doujinshi_id, pages) ==
    {[doujinshi_id |-> doujinshi_id, order_number |-> i, filename |-> pages[i]] : i \in 1..Len(pages)}

\* the flush orders that can differ in their outcome: the page rows before the
\* membership rows (TRUE) or after them
flush_orders(d) ==
    IF record_fields \subseteq DOMAIN d /\ ~page_rows_ok(page_rows(d.id, d.pages)) /\ \E c \in Categories : d[relation_name[c]] # <<>> /\ ~trigger_compiles(c)
    THEN BOOLEAN ELSE {TRUE}

\* validate_doujinshi runs before the try: what it raises reaches the caller;
\* an attribute that SimpleNamespace(**doujinshi) lacks raises AttributeError
\* inside the try
insert_doujinshi(D, d, user_prompt, disable_validation, answer, ord, pages_first) ==
    LET norm(col) == validate_and_normalize_string(col, d[col])
        row == [id |-> d.id,
                full_name |-> norm("full_name").value,
                full_name_original |-> norm("full_name_original").value,
                pretty_name |-> norm("pretty_name").value,
                pretty_name_original |-> norm("pretty_name_original").value,
                note |-> norm("note").value,
                path |-> norm("path").value]
        items1 == [c \in Categories |-> insert_new_items(D.item[c], c, ord[tbl_index(c)])]
        link_ids(c) == {r.id : r \in {x \in items1[c] : x.name \in Range(d[relation_name[c]])}}
        linked == {c \in Categories : d[relation_name[c]] # <<>>}
        pages_fail == ~page_rows_ok(page_rows(d.id, d.pages))
        trigger_fail == \E c \in linked : ~trigger_compiles(c)
        W == [doujinshi |-> D.doujinshi \cup {row},
              page |-> D.page \cup page_rows(d.id, d.pages),
              item |-> [c \in Categories |-> IF c \in linked THEN insert_links(items1[c], c, link_ids(c)) ELSE items1[c]],
              m2m |-> [c \in Categories |-> D.m2m[c] \cup {[doujinshi_id |-> d.id, item_id |-> i] : i \in link_ids(c)}]]
    IN IF ~disable_validation /\ validation_raises(d) # "" THEN Raised(D, validation_raises(d))
       ELSE IF ~disable_validation /\ ~validate_doujinshi(d, user_prompt, answer) THEN Rollback(D, VALIDATION_FAILED)
       ELSE IF "id" \notin DOMAIN d THEN Rollback(D, EXCEPTION)
       ELSE IF doujinshi_scalar_truthy(D, d.id) THEN Rollback(D, ALREADY_EXISTS)
       ELSE IF \E f \in record_fields : f \notin DOMAIN d THEN Rollback(D, EXCEPTION)
       ELSE IF \E col \in text_columns : ~norm(col).ok THEN Rollback(D, EXCEPTION)
       ELSE IF \E c \in Categories : _add_and_link_item_raises(D, c, d[relation_name[c]]) THEN Rollback(D, EXCEPTION)
       ELSE IF ~doujinshi_row_ok(row, D.doujinshi) THEN Rollback(D, INTEGRITY_ERROR)
       ELSE IF pages_fail /\ (pages_first \/ ~trigger_fail) THEN Rollback(D, INTEGRITY_ERROR)
       ELSE IF trigger_fail THEN Rollback(D, EXCEPTION)
       ELSE Commit(W, OK)

(***************************************************************************)
(* Linking, pages, removal, field update                                   *)
(***************************************************************************)
_add_item_to_doujinshi(D, doujinshi_id, c, name) ==
    LET model_id == item_id_by_name(D, c, name)
        row == [doujinshi_id |-> doujinshi_id, item_id |-> model_id]
    IN IF model_id = 0 THEN Rollback(D, NOT_FOUND)
       ELSE IF ~doujinshi_scalar_truthy(D, doujinshi_id) THEN Rollback(D, NOT_FOUND)
       ELSE IF ~trigger_compiles(c) THEN Rollback(D, EXCEPTION)
       ELSE IF row \in D.m2m[c] THEN Rollback(D, ALREADY_EXISTS)
       ELSE Commit([D EXCEPT !.m2m[c] = @ \cup {row}, !.item[c] = trig_incr(c, @, model_id)], OK)

\* _set_pages_to_doujinshi committing right after the delete statement
_set_pages_commit_after_delete(D, doujinshi_id, pages) ==
    LET deleted == [D EXCEPT !.page = {r \in @ : r.doujinshi_id # doujinshi_id}]
        rows == page_rows(doujinshi_id, pages)
    IN IF ~doujinshi_scalar_truthy(D, doujinshi_id) THEN Rollback(D, NOT_FOUND)
       ELSE IF pages = None \/ pages = <<>> THEN Commit(deleted, OK)
       ELSE IF ~page_rows_ok(rows) THEN Rollback(deleted, INTEGRITY_ERROR)
       ELSE Commit([deleted EXCEPT !.page = @ \cup rows], OK)

\* pages is a sequence of filenames, or None
_set_pages_to_doujinshi(D, doujinshi_id, pages) ==
    LET deleted == [D EXCEPT !.page = {r \in @ : r.doujinshi_id # doujinshi_id}]
        rows == page_rows(doujinshi_id, pages)
    IN IF ~doujinshi_scalar_truthy(D, doujinshi_id) THEN Rollback(D, NOT_FOUND)
       ELSE IF pages = None \/ pages = <<>> THEN Commit(deleted, OK)
       ELSE IF ~page_rows_ok(rows) THEN Rollback(D, INTEGRITY_ERROR)
       ELSE Commit([deleted EXCEPT !.page = @ \cup rows], OK)

\* _remove_item_from_doujinshi deleting an item that is left without a link
_remove_item_and_orphan(D, doujinshi_id, c, name) ==
    LET model_id_to_remove == item_id_by_name(D, c, name)
        row == [doujinshi_id |-> doujinshi_id, item_id |-> model_id_to_remove]
        left == D.m2m[c] \ {row}
    IN IF model_id_to_remove = 0 THEN Rollback(D, NOT_FOUND)
       ELSE IF ~doujinshi_scalar_truthy(D, doujinshi_id) THEN Rollback(D, NOT_FOUND)
       ELSE IF ~(row \in D.m2m[c] /\ row.doujinshi_id # 0) THEN Rollback(D, NOT_FOUND)
       ELSE IF ~trigger_compiles(c) THEN Rollback(D, EXCEPTION)
       ELSE Commit([D EXCEPT !.m2m[c] = left,
                             !.item[c] = {r \in trig_decr(c, @, model_id_to_remove) :
                                            \E m \in left : m.item_id = r.id}], OK)

\* the membership lookup is session.scalar(select(m2m_table)...): the first
\* column of the row, doujinshi_id, tested for truth
_remove_item_from_doujinshi(D, doujinshi_id, c, name) ==
    LET model_id_to_remove == item_id_by_name(D, c, name)
        row == [doujinshi_id |-> doujinshi_id, item_id |-> model_id_to_remove]
    IN IF model_id_to_remove = 0 THEN Rollback(D, NOT_FOUND)
       ELSE IF ~doujinshi_scalar_truthy(D, doujinshi_id) THEN Rollback(D, NOT_FOUND)
       ELSE IF ~(row \in D.m2m[c] /\ row.doujinshi_id # 0) THEN Rollback(D, NOT_FOUND)
       ELSE IF ~trigger_compiles(c) THEN Rollback(D, EXCEPTION)
       ELSE Commit([D EXCEPT !.m2m[c] = @ \ {row}, !.item[c] = trig_decr(c, @, model_id_to_remove)], OK)

\* DELETE FROM doujinshi cascades to page and to the six membership tables, so
\* the statement compiles the delete trigger of every membership table
remove_doujinshi(D, doujinshi_id) ==
    LET gone(c) == {m \in D.m2m[c] : m.doujinshi_id = doujinshi_id}
        W == [doujinshi |-> {d \in D.doujinshi : d.id # doujinshi_id},
              page |-> {r \in D.page : r.doujinshi_id # doujinshi_id},
              item |-> [c \in Categories |-> IF gone(c) = {} THEN D.item[c] ELSE trig_decr_all(c, D.item[c], gone(c))],
              m2m |-> [c \in Categories |-> D.m2m[c] \ gone(c)]]
    IN IF ~doujinshi_scalar_truthy(D, doujinshi_id) THEN Rollback(D, NOT_FOUND)
       ELSE IF \E c \in Categories : ~trigger_compiles(c) THEN Rollback(D, EXCEPTION)
       ELSE Commit(W, OK)

\* a Core UPDATE: the ORM validator does not run, the value is stored as given
\* and the table constraints decide
_update_column_of_doujinshi(D, doujinshi_id, column, value) ==
    LET old == CHOOSE d \in D.doujinshi : d.id = doujinshi_id
        new == [old EXCEPT ![column] = value]
    IN IF ~doujinshi_scalar_truthy(D, doujinshi_id) THEN Rollback(D, NOT_FOUND)
       ELSE IF ~doujinshi_row_ok(new, D.doujinshi \ {old}) THEN Rollback(D, INTEGRITY_ERROR)
       ELSE Commit([D EXCEPT !.doujinshi = (@ \ {old}) \cup {new}], OK)

\* update_path_of_doujinshi converts the value before the update
\* (pathlib.Path(value), before any try: TypeError for a value that is not a str)
update_path_of_doujinshi(D, doujinshi_id, value) ==
    IF ~IsStr(value) THEN Raised(D, "TypeError")
    ELSE _update_column_of_doujinshi(D, doujinshi_id, "path", as_posix(value))

(***************************************************************************)
(* Reads                                                                   *)
(***************************************************************************)
\* rows ordered by order_number ascending, as the list of their filenames
RECURSIVE filenames_in_order(_)
filenames_in_order(rows) ==
    IF rows = {} THEN <<>>
    ELSE LET r == CHOOSE x \in rows : \A y \in rows : x.order_number <= y.order_number
         IN <<r.filename>> \o filenames_in_order(rows \ {r})

\* get_doujinshi: select(Doujinshi) yields the mapped object, which is truthy
\* for every id; select(model.name, model.count) is built for each of the six
\* models and raises AttributeError on a model without a count attribute
get_doujinshi(D, doujinshi_id) ==
    IF ~\E d \in D.doujinshi : d.id = doujinshi_id THEN [kind |-> "None"]
    ELSE IF \E c \in Categories : c \notin HasCountColumn THEN [kind |-> "AttributeError"]
    ELSE LET d == CHOOSE x \in D.doujinshi : x.id = doujinshi_id
             linked(c) == {r \in D.item[c] : [doujinshi_id |-> doujinshi_id, item_id |-> r.id] \in D.m2m[c]}
         IN [kind |-> "dict",
             scalars |-> d,
             pages |-> filenames_in_order({r \in D.page : r.doujinshi_id = doujinshi_id}),
             items |-> [c \in Categories |-> {<<r.name, r.count>> : r \in linked(c)}]]

\* get_doujinshi_in_range: the works as a set (the query has no ORDER BY), each
\* with its category lists as sets of names and its pages in order; has_end is
\* FALSE for id_end = None, and `if id_end:` is false for 0 as well
get_doujinshi_in_range(D, id_start, has_end, id_end) ==
    LET selected == {d \in D.doujinshi :
                       d.id >= id_start /\ ((has_end /\ id_end # 0) => d.id <= id_end)}
        names(c, id) == {r.name : r \in {x \in D.item[c] : [doujinshi_id |-> id, item_id |-> x.id] \in D.m2m[c]}}
    IN {[scalars |-> d,
         items |-> [c \in Categories |-> names(c, d.id)],
         pages |-> filenames_in_order({r \in D.page : r.doujinshi_id = d.id})] : d \in selected}

\* the characters of the inputs in code point order (ORDER BY name compares
\* the bytes of the text)
codepoint_order ==
    <<"\t", "\n", " ", "#", "/", "1", "2", ":", "A", "B", "C", "E", "P", "T", "a", "b", "c", "d", "e", "g",
      "h", "i", "j", "l", "n", "o", "p", "q", "r", "s", "t", "u", "x">>

rank(ch) == CHOOSE i \in 1..Len(codepoint_order) : codepoint_order[i] = ch

RECURSIVE name_less(_, _)
name_less(s, t) ==
    IF t = <<>> THEN FALSE
    ELSE IF s = <<>> THEN TRUE
    ELSE IF Head(s) = Head(t) THEN name_less(Tail(s), Tail(t))
    ELSE rank(Head(s)) < rank(Head(t))

\* rows ordered by name ascending, as the list of their (name, count) pairs
RECURSIVE name_count_pairs(_)
name_count_pairs(rows) ==
    IF rows = {} THEN <<>>
    ELSE LET r == CHOOSE x \in rows : \A y \in rows \ {x} : name_less(x.name, y.name)
         IN <<<<r.name, r.count>>>> \o name_count_pairs(rows \ {r})

\* _get_count_by_name without a session: select(model.name, model.count) is
\* built before the try and raises AttributeError on a model without count
_get_count_by_name(D, c, names) ==
    IF names = <<>> THEN [kind |-> "dict", value |-> <<>>]
    ELSE IF c \notin HasCountColumn THEN [kind |-> "AttributeError"]
    ELSE [kind |-> "dict", value |-> name_count_pairs({r \in D.item[c] : r.name \in Range(names)})]

\* _update_count: every count to 0, then to the number of membership rows
_update_count(D, c) ==
    [D EXCEPT !.item[c] = {[r EXCEPT !.count = Cardinality({m \in D.m2m[c] : m.item_id = r.id})] : r \in @}]

\* update_count_of_<category>: update(model).values(count=0) names a column
\* the table must have
_update_count_by_item_type(D, c) ==
    IF c \notin HasCountColumn THEN Rollback(D, EXCEPTION) ELSE Commit(_update_count(D, c), OK)

RECURSIVE update_count_from(_, _)
update_count_from(D, k) ==
    IF k > Len(tbl_names) THEN D ELSE update_count_from(_update_count(D, tbl_names[k]), k + 1)

\* update_count_of_all: the six categories in one transaction, parody first
update_count_of_all(D) ==
    IF \E c \in Categories : c \notin HasCountColumn THEN Rollback(D, EXCEPTION)
    ELSE Commit(update_count_from(D, 1), OK)

\* math.ceil(a / b) for b > 0
ceil_div(a, b) == IF a % b = 0 THEN a \div b ELSE (a \div b) + 1

\* ids in ascending order
RECURSIVE sorted_asc(_)
sorted_asc(S) ==
    IF S = {} THEN <<>>
    ELSE LET m == CHOOSE x \in S : \A y \in S : x <= y IN <<m>> \o sorted_asc(S \ {m})

reversed(seq) == [i \in 1..Len(seq) |-> seq[Len(seq) + 1 - i]]

\* LIMIT limit OFFSET offset of SQLite over an ordered result: a negative
\* offset counts as 0, a negative limit as no limit
limit_offset(seq, limit, offset) ==
    LET off == IF offset < 0 THEN 0 ELSE offset
        first == off + 1
        last == IF limit < 0 \/ off + limit > Len(seq) THEN Len(seq) ELSE off + limit
    IN IF first > last THEN <<>> ELSE SubSeq(seq, first, last)

\* page_window with the back-half offset one page too far
page_window_one_page_off(page_size, page_number, n_doujinshi) ==
    LET max_page_number == ceil_div(n_doujinshi, page_size)
        last_page_size == IF n_doujinshi % page_size = 0 THEN page_size ELSE n_doujinshi % page_size
    IN IF n_doujinshi # 0 /\ page_number > ceil_div(max_page_number, 2)
       THEN IF page_number = max_page_number
            THEN [desc |-> FALSE, limit |-> last_page_size, offset |-> (max_page_number - page_number) * page_size]
            ELSE [desc |-> FALSE, limit |-> page_size,
                  offset |-> last_page_size + (max_page_number - page_number) * page_size]
       ELSE [desc |-> TRUE, limit |-> page_size, offset |-> (page_number - 1) * page_size]

\* the window of get_doujinshi_in_page: [desc, limit, offset]; `if n_doujinshi:`
\* is false for None and for 0 alike, and 0 stands for both
page_window(page_size, page_number, n_doujinshi) ==
    LET max_page_number == ceil_div(n_doujinshi, page_size)
        last_page_size == IF n_doujinshi % page_size = 0 THEN page_size ELSE n_doujinshi % page_size
    IN IF n_doujinshi # 0 /\ page_number > ceil_div(max_page_number, 2)
       THEN IF page_number = max_page_number
            THEN [desc |-> FALSE, limit |-> last_page_size, offset |-> (max_page_number - page_number) * page_size]
            ELSE [desc |-> FALSE, limit |-> page_size,
                  offset |-> last_page_size + (max_page_number - page_number - 1) * page_size]
       ELSE [desc |-> TRUE, limit |-> page_size, offset |-> (page_number - 1) * page_size]

\* page_entry that reports the largest linked language id
page_entry_largest_language(D, id) ==
    LET d == CHOOSE x \in D.doujinshi : x.id = id
        cover == {r \in D.page : r.doujinshi_id = id /\ r.order_number = 1}
        langs == {m.item_id : m \in {x \in D.m2m["language"] : x.doujinshi_id = id}}
    IN [id |-> id, full_name |-> d.full_name, path |-> d.path,
        cover_filename |-> IF cover = {} THEN None ELSE (CHOOSE r \in cover : TRUE).filename,
        language_id |-> IF langs = {} THEN 0 ELSE CHOOSE l \in langs : \A k \in langs : l >= k]

\* one entry of the listing
page_entry(D, id) ==
    LET d == CHOOSE x \in D.doujinshi : x.id = id
        cover == {r \in D.page : r.doujinshi_id = id /\ r.order_number = 1}
        langs == {m.item_id : m \in {x \in D.m2m["language"] : x.doujinshi_id = id}}
    IN [id |-> id, full_name |-> d.full_name, path |-> d.path,
        cover_filename |-> IF cover = {} THEN None ELSE (CHOOSE r \in cover : TRUE).filename,
        language_id |-> IF langs = {} THEN 0 ELSE CHOOSE l \in langs : \A k \in langs : l <= k]

get_doujinshi_in_page(D, page_size, page_number, n_doujinshi) ==
    IF page_number < 1 THEN <<>>
    ELSE LET w == page_window(page_size, page_number, n_doujinshi)
             asc == sorted_asc({d.id : d \in D.doujinshi})
             rows == limit_offset(IF w.desc THEN reversed(asc) ELSE asc, w.limit, w.offset)
             ids == IF w.desc THEN rows ELSE reversed(rows)
         IN [i \in 1..Len(ids) |-> page_entry(D, ids[i])]

how_many_doujinshi(D) == Cardinality(D.doujinshi)

(***************************************************************************)
(* Inputs                                                                  *)
(***************************************************************************)
Ids == {-1, 0, 1}

a == <<"a">>
title == <<"t">>
blank == <<" ">>
p1 == <<"p">>
p2 == <<"q">>
f1 == <<"1">>
f2 == <<"2">>

\* the name a link operation is tried with, per category
link_name(c) == IF c = "language" THEN english ELSE a

\* the names add_<category>_to_doujinshi is called with: the stored form, and
\* a form of the name a with a leading space and an upper-case letter
LinkNames(c) == {link_name(c), <<" ", "A">>}

\* names given to insert_<category>
RawNames == {a, <<" ", "A">>, <<>>, blank, None, <<"123">>}

no_items == [f \in {relation_name[c] : c \in Categories} |-> <<>>]

some_items == [no_items EXCEPT !["artists"] = <<a>>, !["groups"] = <<a>>, !["languages"] = <<english>>]

all_items == [f \in {relation_name[c] : c \in Categories} |-> IF f = "languages" THEN <<english>> ELSE <<a>>]

\* one artist name with a trailing space
spaced_items == [no_items EXCEPT !["artists"] = <<<<"a", " ">>>>]

record(id, path, pages, items) ==
    [id |-> id, full_name |-> title, full_name_original |-> title, pretty_name |-> title,
     pretty_name_original |-> title, note |-> title, path |-> path, pages |-> pages,
     parodies |-> items["parodies"], characters |-> items["characters"], tags |-> items["tags"],
     artists |-> items["artists"], groups |-> items["groups"], languages |-> items["languages"]]

\* the dict d without the key f
without(d, f) == [g \in DOMAIN d \ {f} |-> d[g]]

\* calls of insert_doujinshi: [d, user_prompt, disable_validation, answer]
InsertCalls ==
    {[d |-> record(i, p, <<f1, f2>>, t), user_prompt |-> FALSE, disable_validation |-> FALSE, answer |-> "n"] :
        i \in Ids, p \in {p1, p2}, t \in {no_items, some_items}}
    \cup {[d |-> record(i, p1, <<>>, all_items), user_prompt |-> FALSE, disable_validation |-> FALSE, answer |-> "n"] :
        i \in Ids}
    \cup {[d |-> record(1, p1, <<f1, f1>>, no_items), user_prompt |-> FALSE, disable_validation |-> dv, answer |-> "n"] :
        dv \in BOOLEAN}
    \cup {[d |-> record(1, p1, <<f1>>, no_items), user_prompt |-> TRUE, disable_validation |-> FALSE, answer |-> ans] :
        ans \in {"Y", "n"}}
    \cup {[d |-> record(1, p1, <<f1>>, spaced_items), user_prompt |-> FALSE, disable_validation |-> FALSE, answer |-> "n"]}
    \cup {[d |-> [record(1, p1, <<f1>>, no_items) EXCEPT !.note = blank],
           user_prompt |-> FALSE, disable_validation |-> FALSE, answer |-> "n"]}
    \cup {[d |-> [record(1, p1, <<f1>>, no_items) EXCEPT !.full_name = blank],
           user_prompt |-> FALSE, disable_validation |-> dv, answer |-> "n"] : dv \in BOOLEAN}
    \cup {[d |-> without(record(1, p1, <<f1>>, no_items), "pages"),
           user_prompt |-> FALSE, disable_validation |-> dv, answer |-> "n"] : dv \in BOOLEAN}

PageLists == {<<f2, f1>>, <<f1, f1>>, <<>>}

UpdateColumns == {"full_name", "note", "path"}

UpdateValues == {<<"u">>, blank, p1}

\* calls of update_<column>_of_doujinshi: [column, value]
UpdateCalls ==
    {[column |-> column, value |-> value] : column \in UpdateColumns, value \in UpdateValues}
    \cup {[column |-> column, value |-> <<>>] : column \in {"note", "path"}}
    \cup {[column |-> "path", value |-> None]}
    \cup {[column |-> "full_name", value |-> <<"u", " ">>]}

\* names asked of get_count_of_<category>
NameRequests == {<<>>, <<a>>, <<english, a>>, <<<<"x">>>>}

\* bounds given to get_doujinshi_in_range
RangeIds == -2..2

(***************************************************************************)
(* State machine: one action per manager call, each one transaction        *)
(***************************************************************************)
EmptyDB ==
    [doujinshi |-> {}, page |-> {}, item |-> [c \in Categories |-> {}], m2m |-> [c \in Categories |-> {}]]

\* create_database that writes the four default rows over the language table
create_database_reseeding(D) ==
    LET d1 == _insert_item(EmptyDB, "language", english).db
        d2 == _insert_item(d1, "language", japanese).db
        d3 == _insert_item(d2, "language", chinese).db
    IN Commit([D EXCEPT !.item["language"] = _insert_item(d3, "language", textless).db.item["language"]], OK)

\* create_database: the schema (CREATE ... IF NOT EXISTS), then insert_language
\* of the four defaults, whose statuses are not looked at
create_database(D) ==
    LET d1 == _insert_item(D, "language", english).db
        d2 == _insert_item(d1, "language", japanese).db
        d3 == _insert_item(d2, "language", chinese).db
    IN Commit(_insert_item(d3, "language", textless).db, OK)

Init ==
    /\ doujinshi = create_database(EmptyDB).db.doujinshi
    /\ page = create_database(EmptyDB).db.page
    /\ item = create_database(EmptyDB).db.item
    /\ m2m = create_database(EmptyDB).db.m2m
    /\ pre = create_database(EmptyDB).db
    /\ call = [op |-> "create_database"]
    /\ status = OK
    /\ result = [kind |-> "None"]
    /\ nops = 0

\* the call c returned r = [status, db]
Returns(c, r) ==
    /\ nops < MaxOps
    /\ LET ret == r
       IN /\ nops' = nops + 1
          /\ pre' = DB
          /\ call' = c
          /\ status' = ret.status
          /\ result' = [kind |-> "None"]
          /\ doujinshi' = ret.db.doujinshi
          /\ page' = ret.db.page
          /\ item' = ret.db.item
          /\ m2m' = ret.db.m2m

CreateDatabase ==
    Returns([op |-> "create_database"], create_database(DB))

InsertItem ==
    \E c \in Categories, name \in RawNames :
        Returns([op |-> "insert_item", c |-> c, name |-> name], _insert_item(DB, c, name))

InsertDoujinshi ==
    \E x \in InsertCalls : \E ord \in insert_orders(DB, x.d), pages_first \in flush_orders(x.d) :
        Returns([op |-> "insert_doujinshi", d |-> x.d, user_prompt |-> x.user_prompt,
                 disable_validation |-> x.disable_validation, answer |-> x.answer],
                insert_doujinshi(DB, x.d, x.user_prompt, x.disable_validation, x.answer, ord, pages_first))

AddItemToDoujinshi ==
    \E id \in Ids, c \in Categories : \E name \in LinkNames(c) :
        Returns([op |-> "add_item_to_doujinshi", id |-> id, c |-> c, name |-> name],
                _add_item_to_doujinshi(DB, id, c, name))

RemoveItemFromDoujinshi ==
    \E id \in Ids, c \in Categories :
        Returns([op |-> "remove_item_from_doujinshi", id |-> id, c |-> c, name |-> link_name(c)],
                _remove_item_from_doujinshi(DB, id, c, link_name(c)))

AddPagesToDoujinshi ==
    \E id \in Ids, pages \in PageLists :
        Returns([op |-> "add_pages_to_doujinshi", id |-> id, pages |-> pages],
                _set_pages_to_doujinshi(DB, id, pages))

RemoveAllPagesFromDoujinshi ==
    \E id \in Ids :
        Returns([op |-> "remove_all_pages_from_doujinshi", id |-> id], _set_pages_to_doujinshi(DB, id, None))

RemoveDoujinshi ==
    \E id \in Ids :
        Returns([op |-> "remove_doujinshi", id |-> id], remove_doujinshi(DB, id))

UpdateColumnOfDoujinshi ==
    \E id \in Ids, u \in UpdateCalls :
        Returns([op |-> "update_column_of_doujinshi", id |-> id, column |-> u.column, value |-> u.value],
                IF u.column = "path" THEN update_path_of_doujinshi(DB, id, u.value)
                ELSE _update_column_of_doujinshi(DB, id, u.column, u.value))

UpdateCountOf ==
    \E c \in Categories :
        Returns([op |-> "update_count_of", c |-> c], _update_count_by_item_type(DB, c))

UpdateCountOfAll ==
    Returns([op |-> "update_count_of_all"], update_count_of_all(DB))

Next ==
    \/ CreateDatabase
    \/ InsertItem
    \/ InsertDoujinshi
    \/ AddItemToDoujinshi
    \/ RemoveItemFromDoujinshi
    \/ AddPagesToDoujinshi
    \/ RemoveAllPagesFromDoujinshi
    \/ RemoveDoujinshi
    \/ UpdateColumnOfDoujinshi
    \/ UpdateCountOf
    \/ UpdateCountOfAll

Spec == Init /\ [][Next]_vars

(***************************************************************************)
(* The listing as a function of its arguments: the catalog holds any set   *)
(* of works, then get_doujinshi_in_page is called once                     *)
(***************************************************************************)
MaxStored == 5
MaxPageSize == 3

PagingIds == -1..(MaxStored - 2)

DigitChars == <<"0", "1", "2", "3", "4", "5", "6", "7", "8", "9">>

\* a path that names the work
path_of(id) == IF id < 0 THEN <<"n", DigitChars[1 - id]>> ELSE <<"p", DigitChars[1 + id]>>

\* the catalog after insert_doujinshi of one bare record per id of ids
RECURSIVE catalog_of(_)
catalog_of(ids) ==
    IF ids = {} THEN create_database(EmptyDB).db
    ELSE LET i == CHOOSE x \in ids : \A y \in ids : y <= x
             D == catalog_of(ids \ {i})
             d == record(i, path_of(i), <<f1>>, no_items)
         IN insert_doujinshi(D, d, FALSE, FALSE, "n", CHOOSE o \in insert_orders(D, d) : TRUE, TRUE).db

InitPage ==
    /\ \E ids \in SUBSET PagingIds :
          /\ doujinshi = catalog_of(ids).doujinshi
          /\ page = catalog_of(ids).page
          /\ item = catalog_of(ids).item
          /\ m2m = catalog_of(ids).m2m
          /\ pre = catalog_of(ids)
    /\ \E page_size \in 1..MaxPageSize, page_number \in -1..(MaxStored + 2), with_count \in BOOLEAN :
          call = [op |-> "get_doujinshi_in_page", page_size |-> page_size, page_number |-> page_number,
                  n_doujinshi |-> IF with_count THEN Cardinality(doujinshi) ELSE 0]
    /\ status = "called"
    /\ result = [kind |-> "None"]
    /\ nops = 0

GetDoujinshiInPage ==
    /\ call.op = "get_doujinshi_in_page"
    /\ status = "called"
    /\ status' = "returned"
    /\ result' = [kind |-> "list",
                  value |-> get_doujinshi_in_page(DB, call.page_size, call.page_number, call.n_doujinshi)]
    /\ UNCHANGED <<doujinshi, page, item, m2m, pre, call, nops>>

NextPage == GetDoujinshiInPage

SpecPage == InitPage /\ [][NextPage]_vars

(***************************************************************************)
(* Languages and pages of stored works: two works are stored, then their   *)
(* languages are linked and unlinked and their pages replaced              *)
(***************************************************************************)
CoverIds == {1, 2}

CoverLanguages == {english, japanese}

InitCover ==
    /\ doujinshi = catalog_of(CoverIds).doujinshi
    /\ page = catalog_of(CoverIds).page
    /\ item = catalog_of(CoverIds).item
    /\ m2m = catalog_of(CoverIds).m2m
    /\ pre = catalog_of(CoverIds)
    /\ call = [op |-> "create_database"]
    /\ status = OK
    /\ result = [kind |-> "None"]
    /\ nops = 0

AddLanguageToDoujinshi ==
    \E id \in CoverIds, name \in CoverLanguages :
        Returns([op |-> "add_item_to_doujinshi", id |-> id, c |-> "language", name |-> name],
                _add_item_to_doujinshi(DB, id, "language", name))

RemoveLanguageFromDoujinshi ==
    \E id \in CoverIds, name \in CoverLanguages :
        Returns([op |-> "remove_item_from_doujinshi", id |-> id, c |-> "language", name |-> name],
                _remove_item_from_doujinshi(DB, id, "language", name))

NextCover ==
    \/ AddLanguageToDoujinshi
    \/ RemoveLanguageFromDoujinshi
    \/ AddPagesToDoujinshi
    \/ RemoveAllPagesFromDoujinshi

SpecCover == InitCover /\ [][NextCover]_vars

(***************************************************************************)
(* get_doujinshi_in_range next to writers.  The reader's session issues    *)
(* one SELECT after the other; the sqlite3 driver opens no transaction for *)
(* a SELECT, so each statement reads what is committed when it runs.  A    *)
(* writer's transaction commits as one step.  Here pre is the sequence of  *)
(* the committed states since the call began, status is the reader's       *)
(* position, result its local variables, nops the number of commits.       *)
(***************************************************************************)
\* the work that is stored when the read begins, and the one a writer inserts
stored_record == record(1, p1, <<f1, f2>>, some_items)

inserted_record == [record(2, p2, <<f1>>, no_items) EXCEPT !.artists = <<<<"x">>>>]

InitRange ==
    LET D0 == create_database(EmptyDB).db
        D == insert_doujinshi(D0, stored_record, FALSE, FALSE, "n",
                              CHOOSE o \in insert_orders(D0, stored_record) : TRUE, TRUE).db
    IN /\ doujinshi = D.doujinshi
       /\ page = D.page
       /\ item = D.item
       /\ m2m = D.m2m
       /\ pre = <<D>>
       /\ \E id_start \in {0, 1, 2} :
             call = [op |-> "get_doujinshi_in_range", id_start |-> id_start, has_end |-> FALSE, id_end |-> 0]
       /\ status = "mapping"
       /\ result = [k |-> 1, mapping |-> [c \in Categories |-> {}], works |-> {},
                    links |-> [c \in Categories |-> {}], pages |-> {}]
       /\ nops = 0

\* a writer's transaction r = [status, db] commits while the read is under way
Commits(r) ==
    /\ status \notin {"returned", "raised"}
    /\ nops < MaxOps
    /\ LET ret == r
       IN /\ ret.status = OK
          /\ nops' = nops + 1
          /\ doujinshi' = ret.db.doujinshi
          /\ page' = ret.db.page
          /\ item' = ret.db.item
          /\ m2m' = ret.db.m2m
          /\ pre' = Append(pre, ret.db)
          /\ UNCHANGED <<call, status, result>>

WriterInsertsDoujinshi ==
    \E ord \in insert_orders(DB, inserted_record) :
        Commits(insert_doujinshi(DB, inserted_record, FALSE, FALSE, "n", ord, TRUE))

WriterSetsPages ==
    \E id \in CoverIds, pages \in {<<f2, f1>>, <<>>} : Commits(_set_pages_to_doujinshi(DB, id, pages))

WriterUpdatesColumn ==
    \E id \in CoverIds : Commits(_update_column_of_doujinshi(DB, id, "note", <<"u">>))

WriterAddsItem ==
    \E id \in CoverIds : Commits(_add_item_to_doujinshi(DB, id, "artist", a))

WriterRemovesItem ==
    \E id \in CoverIds : Commits(_remove_item_from_doujinshi(DB, id, "artist", a))

\* get_item_id_to_name_mapping: select(model.id, model.name), one statement
\* per category
ReadItemNames ==
    /\ status = "mapping"
    /\ LET c == tbl_names[result.k]
       IN result' = [result EXCEPT !.mapping[c] = {<<r.id, r.name>> : r \in item[c]},
                                   !.k = IF result.k = Len(tbl_names) THEN 1 ELSE result.k + 1]
    /\ status' = IF result.k = Len(tbl_names) THEN "works" ELSE "mapping"
    /\ UNCHANGED <<doujinshi, page, item, m2m, pre, call, nops>>

\* select(Doujinshi).where(Doujinshi.id >= id_start), and the upper bound
\* unless `if id_end:` is false
ReadWorks ==
    /\ status = "works"
    /\ result' = [result EXCEPT !.works = {d \in doujinshi :
                      d.id >= call.id_start /\ ((call.has_end /\ call.id_end # 0) => d.id <= call.id_end)}]
    /\ status' = "links"
    /\ UNCHANGED <<doujinshi, page, item, m2m, pre, call, nops>>

\* one statement per membership table, over the ids that were read;
\* item_id_to_name[field][item_id] raises KeyError for an id the mapping lacks
ReadLinks ==
    /\ status = "links"
    /\ LET c == tbl_names[result.k]
           ids == {d.id : d \in result.works}
           rows == {m \in m2m[c] : m.doujinshi_id \in ids}
           known == {p[1] : p \in result.mapping[c]}
           name_of(i) == (CHOOSE p \in result.mapping[c] : p[1] = i)[2]
       IN IF \E m \in rows : m.item_id \notin known
          THEN /\ status' = "raised"
               /\ result' = [kind |-> "raise", error |-> "KeyError"]
          ELSE /\ result' = [result EXCEPT !.links[c] = {<<m.doujinshi_id, name_of(m.item_id)>> : m \in rows},
                                           !.k = IF result.k = Len(tbl_names) THEN 1 ELSE result.k + 1]
               /\ status' = IF result.k = Len(tbl_names) THEN "pages" ELSE "links"
    /\ UNCHANGED <<doujinshi, page, item, m2m, pre, call, nops>>

\* the works that were read, as the list of their ids
read_ids == sorted_asc({d.id : d \in result.works})

\* one statement per work that was read: select(Page.filename) in order; after
\* the last one the list of dicts is returned
ReadPages ==
    /\ status = "pages"
    /\ IF result.k > Len(read_ids)
       THEN /\ status' = "returned"
            /\ result' = [kind |-> "list",
                          value |-> {[scalars |-> d,
                                      items |-> [c \in Categories |->
                                                   {l[2] : l \in {y \in result.links[c] : y[1] = d.id}}],
                                      pages |-> (CHOOSE p \in result.pages : p[1] = d.id)[2]] :
                                     d \in result.works}]
       ELSE /\ status' = "pages"
            /\ result' = [result EXCEPT
                             !.pages = @ \cup {<<read_ids[result.k],
                                                filenames_in_order({r \in page : r.doujinshi_id = read_ids[result.k]})>>},
                             !.k = @ + 1]
    /\ UNCHANGED <<doujinshi, page, item, m2m, pre, call, nops>>

NextRange ==
    \/ WriterInsertsDoujinshi
    \/ WriterSetsPages
    \/ WriterUpdatesColumn
    \/ WriterAddsItem
    \/ WriterRemovesItem
    \/ ReadItemNames
    \/ ReadWorks
    \/ ReadLinks
    \/ ReadPages

SpecRange == InitRange /\ [][NextRange]_vars

(***************************************************************************)
(* Concurrent manager calls, each in its own session.  A caller's SELECTs  *)
(* read what is committed when they run; its write statement and commit    *)
(* run as one step, one writer at a time.  call, status and result are     *)
(* per caller: the call, the statement it is at or the status it returned, *)
(* and the values it has read.                                             *)
(***************************************************************************)
Callers == {"s1", "s2"}

\* the write of _add_item_to_doujinshi with the item id read before:
\* insert(m2m_table) and commit; the increment trigger is part of the statement
_add_item_insert(D, doujinshi_id, c, model_id) ==
    LET row == [doujinshi_id |-> doujinshi_id, item_id |-> model_id]
    IN IF ~trigger_compiles(c) THEN Rollback(D, EXCEPTION)
       ELSE IF row \in D.m2m[c] \/ ~\E d \in D.doujinshi : d.id = doujinshi_id
            THEN Rollback(D, ALREADY_EXISTS)
       ELSE Commit([D EXCEPT !.m2m[c] = @ \cup {row}, !.item[c] = trig_incr(c, @, model_id)], OK)

\* the write of _remove_item_from_doujinshi with the item id read before:
\* delete(m2m_table).where(...) and commit; the decrement trigger fires once
\* for each row the statement deletes, and the status is OK for none too
_remove_item_delete(D, doujinshi_id, c, model_id_to_remove) ==
    LET gone == {m \in D.m2m[c] : m.doujinshi_id = doujinshi_id /\ m.item_id = model_id_to_remove}
    IN IF ~trigger_compiles(c) THEN Rollback(D, EXCEPTION)
       ELSE Commit([D EXCEPT !.m2m[c] = @ \ gone,
                             !.item[c] = trig_decr_all(c, @, gone)], OK)

\* the calls the callers make
RaceCalls ==
    {[op |-> op, id |-> 1, c |-> c, name |-> a] :
        op \in {"add_item_to_doujinshi", "remove_item_from_doujinshi"}, c \in {"artist", "parody"}}
    \cup {[op |-> "insert_doujinshi", d |-> record(2, p, <<f1>>, no_items)] : p \in {p1, p2}}
    \cup {[op |-> "update_path_of_doujinshi", id |-> 1, value |-> p2]}

\* work 1 stored at path p1, linked or not to the artist a, and the parody a
race_catalog(linked) ==
    LET created == create_database(EmptyDB).db
        d == record(1, p1, <<f1>>, IF linked THEN [no_items EXCEPT !["artists"] = <<a>>] ELSE no_items)
        stored == insert_doujinshi(created, d, FALSE, FALSE, "n",
                                   CHOOSE ord \in insert_orders(created, d) : TRUE, TRUE).db
    IN _insert_item(_insert_item(stored, "artist", a).db, "parody", a).db

InitRace ==
    /\ \E linked \in BOOLEAN :
          /\ doujinshi = race_catalog(linked).doujinshi
          /\ page = race_catalog(linked).page
          /\ item = race_catalog(linked).item
          /\ m2m = race_catalog(linked).m2m
          /\ pre = race_catalog(linked)
    /\ call \in [Callers -> RaceCalls]
    /\ status = [s \in Callers |-> IF call[s].op \in {"add_item_to_doujinshi", "remove_item_from_doujinshi"}
                                   THEN "select item" ELSE "select doujinshi"]
    /\ result = [s \in Callers |-> [model_id |-> 0]]
    /\ nops = 0

\* caller s runs its next SELECT and returns or goes on by what it finds
RaceSelect(s) ==
    /\ \/ /\ status[s] = "select item"
          /\ LET model_id == item_id_by_name(DB, call[s].c, call[s].name)
             IN /\ result' = [result EXCEPT ![s] = [model_id |-> model_id]]
                /\ status' = [status EXCEPT ![s] = IF model_id = 0 THEN NOT_FOUND ELSE "select doujinshi"]
       \/ /\ status[s] = "select doujinshi"
          /\ LET found == doujinshi_scalar_truthy(DB, IF call[s].op = "insert_doujinshi" THEN call[s].d.id ELSE call[s].id)
             IN status' = [status EXCEPT ![s] =
                    IF call[s].op = "insert_doujinshi" THEN (IF found THEN ALREADY_EXISTS ELSE "write")
                    ELSE IF ~found THEN NOT_FOUND
                    ELSE IF call[s].op = "remove_item_from_doujinshi" THEN "select link"
                    ELSE "write"]
          /\ UNCHANGED result
       \/ /\ status[s] = "select link"
          /\ status' = [status EXCEPT ![s] =
                IF [doujinshi_id |-> call[s].id, item_id |-> result[s].model_id] \in m2m[call[s].c]
                THEN "write" ELSE NOT_FOUND]
          /\ UNCHANGED result
    /\ UNCHANGED <<doujinshi, page, item, m2m, pre, call, nops>>

\* caller s runs its write statement and commits, or gets the error and
\* rolls back; a primary key that another caller took after the SELECT of
\* insert_doujinshi is an IntegrityError
RaceWrite(s) ==
    /\ status[s] = "write"
    /\ LET x == call[s]
           r == CASE x.op = "add_item_to_doujinshi" -> _add_item_insert(DB, x.id, x.c, result[s].model_id)
                  [] x.op = "remove_item_from_doujinshi" -> _remove_item_delete(DB, x.id, x.c, result[s].model_id)
                  [] x.op = "update_path_of_doujinshi" -> update_path_of_doujinshi(DB, x.id, x.value)
                  [] x.op = "insert_doujinshi" ->
                        LET w == insert_doujinshi(DB, x.d, FALSE, TRUE, "n",
                                                  CHOOSE ord \in insert_orders(DB, x.d) : TRUE, TRUE)
                        IN IF w.status = ALREADY_EXISTS THEN Rollback(DB, INTEGRITY_ERROR) ELSE w
       IN /\ status' = [status EXCEPT ![s] = r.status]
          /\ doujinshi' = r.db.doujinshi
          /\ page' = r.db.page
          /\ item' = r.db.item
          /\ m2m' = r.db.m2m
    /\ UNCHANGED <<pre, call, result, nops>>

NextRace == \E s \in Callers : RaceSelect(s) \/ RaceWrite(s)

SpecRace == InitRace /\ [][NextRace]_vars

(***************************************************************************)
(* The legacy Database class (classes/database.py): remove_doujinshi on a  *)
(* catalog of works with pages and language links.  Its tables have no     *)
(* count column and no trigger; the foreign keys cascade.                  *)
(***************************************************************************)
FATAL == "FATAL"
NON_FATAL == "NON_FATAL"
NON_FATAL_DOUJINSHI_NOT_FOUND == "NON_FATAL_DOUJINSHI_NOT_FOUND"

\* lines typed at the prompt
Answers == {"Y", "n", "y", ""}

LegacyIds == {0, 1, 2}

\* the tables after Database.insert_doujinshi of one work per id of ids, each
\* with two pages, the works of linked with the language english
legacy_catalog(ids, linked) ==
    [doujinshi |-> {[id |-> i, full_name |-> title, path |-> path_of(i)] : i \in ids},
     page |-> {[doujinshi_id |-> i, order_number |-> n, file_name |-> <<f1, f2>>[n]] : i \in ids, n \in 1..2},
     item |-> [c \in Categories |->
                 IF c = "language"
                 THEN {[id |-> 1, name |-> english], [id |-> 2, name |-> japanese],
                       [id |-> 3, name |-> chinese], [id |-> 4, name |-> textless]}
                 ELSE {}],
     m2m |-> [c \in Categories |->
                IF c = "language" THEN {[doujinshi_id |-> i, item_id |-> 1] : i \in linked} ELSE {}]]

\* Database.remove_doujinshi that takes a lower-case y for a confirmation
Database_remove_doujinshi_any_case(D, doujinshi_id, confirm) ==
    IF confirm \notin {"Y", "y"} THEN [status |-> NON_FATAL, db |-> D]
    ELSE IF ~\E d \in D.doujinshi : d.id = doujinshi_id
         THEN [status |-> NON_FATAL_DOUJINSHI_NOT_FOUND, db |-> D]
    ELSE [status |-> OK,
          db |-> [D EXCEPT !.doujinshi = {d \in @ : d.id # doujinshi_id},
                           !.page = {r \in @ : r.doujinshi_id # doujinshi_id},
                           !.m2m = [c \in Categories |-> {m \in @[c] : m.doujinshi_id # doujinshi_id}]]]

\* Database.remove_doujinshi: the prompt is read before the database is opened;
\* DELETE FROM doujinshi cascades to page and to the six membership tables,
\* and cursor.rowcount tells whether a row was deleted
Database_remove_doujinshi(D, doujinshi_id, confirm) ==
    IF confirm # "Y" THEN [status |-> NON_FATAL, db |-> D]
    ELSE IF ~\E d \in D.doujinshi : d.id = doujinshi_id
         THEN [status |-> NON_FATAL_DOUJINSHI_NOT_FOUND, db |-> D]
    ELSE [status |-> OK,
          db |-> [D EXCEPT !.doujinshi = {d \in @ : d.id # doujinshi_id},
                           !.page = {r \in @ : r.doujinshi_id # doujinshi_id},
                           !.m2m = [c \in Categories |-> {m \in @[c] : m.doujinshi_id # doujinshi_id}]]]

InitLegacy ==
    /\ \E ids \in SUBSET LegacyIds : \E linked \in SUBSET ids :
          /\ doujinshi = legacy_catalog(ids, linked).doujinshi
          /\ page = legacy_catalog(ids, linked).page
          /\ item = legacy_catalog(ids, linked).item
          /\ m2m = legacy_catalog(ids, linked).m2m
          /\ pre = legacy_catalog(ids, linked)
    /\ call = [op |-> "Database.insert_doujinshi"]
    /\ status = OK
    /\ result = [kind |-> "None"]
    /\ nops = 0

LegacyRemoveDoujinshi ==
    \E id \in LegacyIds, confirm \in Answers :
        Returns([op |-> "Database.remove_doujinshi", id |-> id, confirm |-> confirm],
                Database_remove_doujinshi(DB, id, confirm))

NextLegacy == LegacyRemoveDoujinshi

SpecLegacy == InitLegacy /\ [][NextLegacy]_vars

(***************************************************************************)
(* The legacy Database class: pages and the cover.  Here a doujinshi row   *)
(* is [id, full_name, path, cover_page_id] and a page row is [id,          *)
(* doujinshi_id, order_number, file_name]; cover_page_id is <<>> for NULL  *)
(* and <<id>> for a page id.                                               *)
(***************************************************************************)
\* the results of doujinshi.strict_mode(), the check before the insertion
Doujinshi_strict_mode == BOOLEAN

\* INSERT INTO page of the file names from order number k on; the id of a new
\* row is one more than the largest id in the table
RECURSIVE legacy_insert_pages(_, _, _, _)
legacy_insert_pages(rows, doujinshi_id, page_order, k) ==
    IF k > Len(page_order) THEN rows
    ELSE legacy_insert_pages(
            rows \cup {[id |-> max_id(rows) + 1, doujinshi_id |-> doujinshi_id,
                        order_number |-> k, file_name |-> page_order[k]]},
            doujinshi_id, page_order, k + 1)

\* DELETE FROM page WHERE doujinshi_id = ?: ON DELETE SET NULL clears every
\* cover_page_id that references a deleted page
legacy_delete_pages(D, doujinshi_id) ==
    LET gone == {r.id : r \in {x \in D.page : x.doujinshi_id = doujinshi_id}}
    IN [D EXCEPT !.page = {r \in @ : r.doujinshi_id # doujinshi_id},
                 !.doujinshi = {IF d.cover_page_id # <<>> /\ d.cover_page_id[1] \in gone
                                THEN [d EXCEPT !.cover_page_id = <<>>] ELSE d : d \in @}]

Database_add_pages_to_doujinshi(D, doujinshi_id, page_order_list) ==
    LET deleted == legacy_delete_pages(D, doujinshi_id)
    IN IF page_order_list = None \/ page_order_list = <<>> THEN [status |-> NON_FATAL, db |-> D]
       ELSE IF ~\E d \in D.doujinshi : d.id = doujinshi_id
            THEN [status |-> NON_FATAL_DOUJINSHI_NOT_FOUND, db |-> D]
       ELSE IF \E k \in 1..Len(page_order_list) : page_order_list[k] = <<>>
            THEN [status |-> FATAL, db |-> D]
       ELSE [status |-> OK,
             db |-> [deleted EXCEPT !.page = legacy_insert_pages(@, doujinshi_id, page_order_list, 1)]]

Database_remove_all_pages_from_doujinshi(D, doujinshi_id) ==
    IF ~\E d \in D.doujinshi : d.id = doujinshi_id
    THEN [status |-> NON_FATAL_DOUJINSHI_NOT_FOUND, db |-> D]
    ELSE [status |-> OK, db |-> legacy_delete_pages(D, doujinshi_id)]

\* Database.insert_doujinshi of an object o with empty taxonomy lists: the
\* row, the pages of o.page_order, then UPDATE doujinshi SET cover_page_id to
\* the id selected for the page of order number 1
Database_insert_doujinshi(D, o, strict) ==
    LET pages == legacy_insert_pages(D.page, o.id, o.page_order, 1)
        cover == {r.id : r \in {x \in pages : x.doujinshi_id = o.id /\ x.order_number = 1}}
        row == [id |-> o.id, full_name |-> o.full_name, path |-> o.path,
                cover_page_id |-> IF cover = {} THEN <<>> ELSE <<CHOOSE i \in cover : TRUE>>]
    IN IF ~strict THEN [status |-> NON_FATAL, db |-> D]
       ELSE IF \E d \in D.doujinshi : d.id = o.id THEN [status |-> NON_FATAL, db |-> D]
       ELSE IF \/ o.full_name = None \/ o.full_name = <<>> \/ o.path = None \/ o.path = <<>>
               \/ \E d \in D.doujinshi : d.path = o.path
            THEN [status |-> NON_FATAL, db |-> D]
       ELSE IF \E k \in 1..Len(o.page_order) : o.page_order[k] = <<>> THEN [status |-> FATAL, db |-> D]
       ELSE [status |-> OK, db |-> [D EXCEPT !.doujinshi = @ \cup {row}, !.page = pages]]

LegacyPageIds == {1, 2}

LegacyPageLists == {<<>>, <<f1>>, <<f2, f1>>, <<f1, <<>>>>}

InitLegacyPages ==
    /\ doujinshi = {} /\ page = {} /\ item = EmptyDB.item /\ m2m = EmptyDB.m2m
    /\ pre = EmptyDB
    /\ call = [op |-> "Database.create_database"]
    /\ status = OK
    /\ result = [kind |-> "None"]
    /\ nops = 0

LegacyInsertDoujinshi ==
    \E id \in LegacyPageIds, path \in {p1, p2}, page_order \in LegacyPageLists, strict \in Doujinshi_strict_mode :
        LET o == [id |-> id, full_name |-> title, path |-> path, page_order |-> page_order]
        IN Returns([op |-> "Database.insert_doujinshi", doujinshi |-> o, strict |-> strict],
                   Database_insert_doujinshi(DB, o, strict))

LegacyAddPagesToDoujinshi ==
    \E id \in LegacyPageIds, pages \in LegacyPageLists :
        Returns([op |-> "Database.add_pages_to_doujinshi", id |-> id, pages |-> pages],
                Database_add_pages_to_doujinshi(DB, id, pages))

LegacyRemoveAllPagesFromDoujinshi ==
    \E id \in LegacyPageIds :
        Returns([op |-> "Database.remove_all_pages_from_doujinshi", id |-> id],
                Database_remove_all_pages_from_doujinshi(DB, id))

NextLegacyPages == LegacyInsertDoujinshi \/ LegacyAddPagesToDoujinshi \/ LegacyRemoveAllPagesFromDoujinshi

SpecLegacyPages == InitLegacyPages /\ [][NextLegacyPages]_vars

(***************************************************************************)
(* validate_doujinshi as a function of its arguments: the checks run once, *)
(* then the input loop reads one line per step                             *)
(***************************************************************************)
MaxPrompts == 2

\* a value of d["id"] that is not an int
non_int_id(type_name) == IF type_name = "bool" THEN TRUE ELSE <<"1">>

\* the dict given to validate_doujinshi: a complete record without warnings,
\* with four of its values replaced, its id of the given type, and the keys
\* of missing removed
validation_record(type_name, full_name, path, artists, pages, missing) ==
    LET base == record(1, path, pages, all_items)
        full == [base EXCEPT !.full_name = full_name, !.artists = artists]
        typed == IF type_name = "int" THEN full
                 ELSE [f \in DOMAIN full \cup {"id_type"} |->
                          IF f = "id_type" THEN type_name
                          ELSE IF f = "id" THEN non_int_id(type_name) ELSE full[f]]
    IN [f \in DOMAIN typed \ missing |-> typed[f]]

InitValidate ==
    /\ \E type_name \in {"int", "bool", "str"},
          full_name \in {title, blank, None},
          path \in {p1, blank, <<"p", "/">>},
          artists \in {<<a>>, <<a, a>>, <<<<"A">>>>, <<>>},
          pages \in {<<f1>>, <<f1, f1>>},
          missing \in {{}, {"full_name"}, {"path"}, {"pretty_name"}, {"artists"}, {"pages"}},
          user_prompt \in BOOLEAN :
            call = [op |-> "validate_doujinshi",
                    d |-> validation_record(type_name, full_name, path, artists, pages, missing),
                    user_prompt |-> user_prompt]
    /\ status = "called"
    /\ result = [kind |-> "None"]
    /\ nops = 0
    /\ doujinshi = {} /\ page = {} /\ item = EmptyDB.item /\ m2m = EmptyDB.m2m
    /\ pre = EmptyDB

\* the checks of validate_doujinshi up to its decision
ValidateChecks ==
    /\ status = "called"
    /\ LET raised == validation_raises(call.d)
           decision == validation_decision(validation_errors(call.d), validation_warnings(call.d),
                                           call.user_prompt)
       IN IF raised # ""
          THEN status' = "raised" /\ result' = [kind |-> "raise", error |-> raised]
          ELSE IF decision = "prompt"
               THEN status' = "prompting" /\ result' = [kind |-> "prompt"]
               ELSE status' = "returned" /\ result' = [kind |-> "bool", value |-> decision = "True"]
    /\ UNCHANGED <<doujinshi, page, item, m2m, pre, call, nops>>

\* one input() of the loop; nops counts the lines read
ValidatePrompt ==
    /\ status = "prompting"
    /\ nops < MaxPrompts
    /\ \E answer \in Answers :
          LET r == read_answer(answer)
          IN IF r.done
             THEN status' = "returned" /\ result' = [kind |-> "bool", value |-> r.value, answer |-> answer]
             ELSE status' = "prompting" /\ result' = [kind |-> "prompt", answer |-> answer]
    /\ nops' = nops + 1
    /\ UNCHANGED <<doujinshi, page, item, m2m, pre, call>>

NextValidate == ValidateChecks \/ ValidatePrompt

SpecValidate == InitValidate /\ [][NextValidate]_vars

(***************************************************************************)
(* The legacy Doujinshi class (classes/doujinshi.py): validate as a        *)
(* function of the object's attributes; the checks run once, then the      *)
(* input loop reads one line per step                                      *)
(***************************************************************************)
legacy_scalar_fields == {"bold_name", "full_name_original", "bold_name_original", "path", "cover_path"}

legacy_list_fields ==
    {"parodies", "characters", "tags", "artists", "groups", "languages", "page_order", "_page_order"}

\* the exception validate raises instead of returning, "" for none: set() over
\* a page order that is not iterable
Doujinshi_validate_raises(o) ==
    IF o.page_order = None \/ o._page_order = None THEN "TypeError" ELSE ""

\* the errors that are appended and printed
Doujinshi_validate_errors(o) ==
    (IF o.id_type \notin {"int", "bool"} THEN {"Doujinshi id must be an int."} ELSE {})
    \cup (IF ~is_non_empty_str(o.full_name) THEN {"full_name must be a non-empty string."} ELSE {})
    \cup (IF ~is_non_empty_str(o.path) THEN {"path must be a non-empty string."} ELSE {})
    \cup (IF has_duplicates(o.page_order) \/ has_duplicates(o._page_order)
          THEN {"_page_order or page_order has duplicate file names."} ELSE {})

\* some warning is appended
Doujinshi_validate_warnings(o) ==
    \/ ~is_non_empty_str(o.PATH_PREFIX)
    \/ \E f \in legacy_list_fields :
          o[f] = None \/ o[f] = <<>> \/ \E v \in Range(o[f]) : IsStr(v) /\ v # strip(v)
    \/ \E f \in legacy_scalar_fields : ~IsStr(o[f]) \/ o[f] = <<>> \/ o[f] # strip(o[f])
    \/ (o.tags # None /\ textless \in Range(o.tags))
    \/ (o.languages # None /\ \E lang \in Range(o.languages) : strip(lang) \notin VALID_LANGUAGES)

\* the decision of utils.validate_doujinshi, where an error returns False
\* without a prompt and warnings alone pass when user_prompt is False
Doujinshi_validate_decision_of_utils(errors, warnings, user_prompt) ==
    IF ~warnings /\ errors = {} THEN "True"
    ELSE IF errors # {} THEN "False"
    ELSE IF ~user_prompt THEN "True"
    ELSE "prompt"

\* the decision after the checks: "True", "False", or "prompt" for the input loop
Doujinshi_validate_decision(errors, warnings, user_prompt) ==
    IF ~warnings /\ errors = {} THEN "True"
    ELSE IF ~user_prompt THEN "False"
    ELSE "prompt"

\* one round of the input loop: [done, value]
Doujinshi_read_answer(answer) ==
    [done |-> answer \in {"Y", "n"}, value |-> answer = "Y"]

\* the attributes of a Doujinshi after load_from_json and ready(), with seven
\* of them replaced
legacy_object(type_name, full_name, PATH_PREFIX, languages, page_order, _page_order) ==
    [id |-> 1, id_type |-> type_name, full_name |-> full_name, path |-> p1, PATH_PREFIX |-> PATH_PREFIX,
     bold_name |-> title, full_name_original |-> title, bold_name_original |-> title, cover_path |-> f1,
     parodies |-> <<a>>, characters |-> <<a>>, tags |-> <<a>>, artists |-> <<a>>, groups |-> <<a>>,
     languages |-> languages, page_order |-> page_order, _page_order |-> _page_order]

InitLegacyValidate ==
    /\ \E type_name \in {"int", "str"},
          full_name \in {title, blank},
          PATH_PREFIX \in {p2, <<>>},
          languages \in {<<english>>, <<<<"x">>>>},
          page_order \in {<<f1, f2>>, <<f1, f1>>},
          _page_order \in {<<f1, f2>>, <<f1, f1>>, <<>>, None},
          user_prompt \in BOOLEAN :
            call = [op |-> "Doujinshi.validate",
                    d |-> legacy_object(type_name, full_name, PATH_PREFIX, languages, page_order, _page_order),
                    user_prompt |-> user_prompt]
    /\ status = "called"
    /\ result = [kind |-> "None"]
    /\ nops = 0
    /\ doujinshi = {} /\ page = {} /\ item = EmptyDB.item /\ m2m = EmptyDB.m2m
    /\ pre = EmptyDB

\* the checks of Doujinshi.validate up to its decision; printed is the list
\* of errors written to the terminal
LegacyValidateChecks ==
    /\ status = "called"
    /\ LET raised == Doujinshi_validate_raises(call.d)
           errors == Doujinshi_validate_errors(call.d)
           decision == Doujinshi_validate_decision(errors, Doujinshi_validate_warnings(call.d), call.user_prompt)
       IN IF raised # ""
          THEN status' = "raised" /\ result' = [kind |-> "raise", error |-> raised]
          ELSE IF decision = "prompt"
               THEN status' = "prompting" /\ result' = [kind |-> "prompt", printed |-> errors]
               ELSE status' = "returned"
                    /\ result' = [kind |-> "bool", value |-> decision = "True",
                                  printed |-> IF decision = "True" THEN {} ELSE errors]
    /\ UNCHANGED <<doujinshi, page, item, m2m, pre, call, nops>>

\* one input() of the loop; nops counts the lines read
LegacyValidatePrompt ==
    /\ status = "prompting"
    /\ nops < MaxPrompts
    /\ \E answer \in Answers :
          LET r == Doujinshi_read_answer(answer)
          IN IF r.done
             THEN status' = "returned"
                  /\ result' = [kind |-> "bool", value |-> r.value, answer |-> answer, printed |-> result.printed]
             ELSE status' = "prompting"
                  /\ result' = [kind |-> "prompt", answer |-> answer, printed |-> result.printed]
    /\ nops' = nops + 1
    /\ UNCHANGED <<doujinshi, page, item, m2m, pre, call>>

NextLegacyValidate == LegacyValidateChecks \/ LegacyValidatePrompt

SpecLegacyValidate == InitLegacyValidate /\ [][NextLegacyValidate]_vars

(***************************************************************************)
(* The legacy Doujinshi class (classes/doujinshi.py): to_json and          *)
(* load_from_json over one file.  The file is absent, holds text that is   *)
(* not JSON, or holds a JSON list or object; a JSON object is the dict     *)
(* json.load gives back, its strings, numbers, lists and null unchanged    *)
(* through json.dump and json.load.                                        *)
(***************************************************************************)
json_keys ==
    {"id", "path", "full_name", "bold_name", "full_name_original", "bold_name_original", "parodies",
     "characters", "tags", "artists", "groups", "languages", "_page_order", "note"}

\* the class attribute PATH_PREFIX as declared
PATH_PREFIX == <<>>

\* Doujinshi.__init__, which reset() calls
Doujinshi_init ==
    [id |-> -1, path |-> None, full_name |-> None, bold_name |-> None, full_name_original |-> None,
     bold_name_original |-> None, added_at |-> None, note |-> None,
     parodies |-> <<>>, characters |-> <<>>, tags |-> <<>>, artists |-> <<>>, groups |-> <<>>,
     languages |-> <<>>, _page_order |-> <<>>, page_order |-> <<>>, cover_path |-> None]

\* Path(prefix, path, name).as_posix(): an absolute segment drops what precedes it
path_join(segments) ==
    LET joined[i \in 0..Len(segments)] ==
            IF i = 0 THEN <<>>
            ELSE IF segments[i] # <<>> /\ Head(segments[i]) = "/" THEN segments[i]
            ELSE IF joined[i - 1] = <<>> THEN segments[i]
            ELSE joined[i - 1] \o <<"/">> \o segments[i]
    IN as_posix(joined[Len(segments)])

\* Doujinshi.to_json: [raised, file]; the file is opened for writing, and so
\* emptied, before the dict is built
Doujinshi_to_json(o, file) ==
    IF ~IsStr(o.path) THEN [raised |-> "TypeError", file |-> [kind |-> "invalid"]]
    ELSE [raised |-> "",
          file |-> [kind |-> "dict",
                    data |-> [k \in json_keys |-> IF k = "path" THEN as_posix(o.path) ELSE o[k]]]]

\* the exception inside load_from_json, "" for none, in the order of its statements
Doujinshi_load_error(file) ==
    IF file.kind = "missing" THEN "FileNotFoundError"
    ELSE IF file.kind = "invalid" THEN "JSONDecodeError"
    ELSE IF file.kind = "list" THEN "TypeError"
    ELSE IF "id" \notin DOMAIN file.data \/ "path" \notin DOMAIN file.data THEN "KeyError"
    ELSE IF ~IsStr(file.data.path) THEN "TypeError"
    ELSE IF ~(json_keys \subseteq DOMAIN file.data) THEN "KeyError"
    ELSE IF file.data._page_order = None THEN "TypeError"
    ELSE IF file.data._page_order = <<>> THEN "IndexError"
    ELSE IF ~IsStr(file.data._page_order[1]) THEN "TypeError"
    ELSE ""

\* Doujinshi.load_from_json: the object it returns.  The two handlers around
\* open and json.load return self as it is; the two around the assignments reset
Doujinshi_load_from_json(o, file) ==
    LET error == Doujinshi_load_error(file)
    IN IF error \in {"FileNotFoundError", "JSONDecodeError"} THEN o
       ELSE IF error # "" THEN Doujinshi_init
       ELSE [k \in DOMAIN o |->
               IF k = "path" THEN as_posix(file.data.path)
               ELSE IF k = "cover_path"
                    THEN path_join(<<PATH_PREFIX, as_posix(file.data.path), file.data._page_order[1]>>)
               ELSE IF k \in json_keys THEN file.data[k]
               ELSE o[k]]

\* an object whose attributes were assigned
json_object(path, tags, _page_order, note) ==
    [Doujinshi_init EXCEPT !.id = 1, !.path = path, !.full_name = title, !.bold_name = title,
                           !.full_name_original = title, !.bold_name_original = title,
                           !.tags = tags, !.languages = <<english>>, !._page_order = _page_order,
                           !.note = note, !.added_at = <<"2", "5">>]

JsonObjects ==
    {json_object(path, tags, _page_order, note) :
        path \in {p1, <<"p", "/", "/", "q">>, None},
        tags \in {<<>>, <<a>>},
        _page_order \in {<<>>, <<f1>>, <<f1, f2>>},
        note \in {title, None}}

\* what the file at json_path holds before the first call
JsonFiles ==
    {[kind |-> "missing"], [kind |-> "invalid"], [kind |-> "list"],
     [kind |-> "dict", data |-> [id |-> 2, path |-> p2]],
     [kind |-> "dict", data |-> Doujinshi_to_json(json_object(p2, <<>>, <<f2>>, title), [kind |-> "missing"]).file.data]}

\* pre is [file, saved]: the file and the object to_json last wrote to it
InitJson ==
    /\ \E o \in JsonObjects, file \in JsonFiles :
          /\ call = [op |-> "Doujinshi.__init__", self |-> o]
          /\ pre = [file |-> file, saved |-> <<>>]
    /\ status = "constructed"
    /\ result = [kind |-> "None"]
    /\ nops = 0
    /\ doujinshi = {} /\ page = {} /\ item = EmptyDB.item /\ m2m = EmptyDB.m2m

\* call.self.to_json(json_path)
JsonToJson ==
    /\ status = "constructed"
    /\ LET r == Doujinshi_to_json(call.self, pre.file)
       IN /\ pre' = [file |-> r.file, saved |-> IF r.raised = "" THEN <<call.self>> ELSE <<>>]
          /\ status' = IF r.raised = "" THEN "saved" ELSE "raised"
          /\ result' = [kind |-> "None", error |-> r.raised]
    /\ call' = [op |-> "Doujinshi.to_json", self |-> call.self]
    /\ UNCHANGED <<doujinshi, page, item, m2m, nops>>

\* load_from_json(json_path) on a fresh object or on the object at hand;
\* result is the object returned
JsonLoadFromJson ==
    /\ status \in {"constructed", "saved", "raised"}
    /\ \E target \in {Doujinshi_init, call.self} :
          /\ call' = [op |-> "Doujinshi.load_from_json", self |-> target]
          /\ result' = Doujinshi_load_from_json(target, pre.file)
    /\ status' = "loaded"
    /\ UNCHANGED <<doujinshi, page, item, m2m, pre, nops>>

NextJson == JsonToJson \/ JsonLoadFromJson

SpecJson == InitJson /\ [][NextJson]_vars

(***************************************************************************)
(* The ingestion scanner (src/doujin.py): Doujin.parse_metadata over the   *)
(* lines of the metadata file, one line of the while loop per step         *)
(***************************************************************************)
MaxLines == 3

bins == {"parodies", "characters", "tags"}

\* the three literal header lines
Parodies_header == <<"P", "a", "r", "o", "d", "i", "e", "s", ":">>
Characters_header == <<"C", "h", "a", "r", "a", "c", "t", "e", "r", "s", ":">>
Tags_header == <<"T", "a", "g", "s", ":">>

\* the name of a bin as text
bin_text(bin) ==
    CASE bin = "parodies" -> <<"p", "a", "r", "o", "d", "i", "e", "s">>
      [] bin = "characters" -> <<"c", "h", "a", "r", "a", "c", "t", "e", "r", "s">>
      [] bin = "tags" -> <<"t", "a", "g", "s">>
      [] OTHER -> None

Digits == <<"0", "1", "2", "3", "4", "5", "6", "7", "8", "9">>

\* int(s) of a string of digits: [ok, value]; ok FALSE is the ValueError
RECURSIVE int_of(_, _)
int_of(s, value) ==
    IF s = <<>> THEN [ok |-> TRUE, value |-> value]
    ELSE IF ~\E n \in 1..Len(Digits) : Digits[n] = Head(s) THEN [ok |-> FALSE, value |-> 0]
    ELSE int_of(Tail(s), value * Len(Digits) + (CHOOSE n \in 1..Len(Digits) : Digits[n] = Head(s)) - 1)

\* list.sort() of strings
RECURSIVE sort_lines(_)
sort_lines(seq) ==
    IF seq = <<>> THEN <<>>
    ELSE LET m == CHOOSE i \in 1..Len(seq) : \A j \in 1..Len(seq) : ~name_less(seq[j], seq[i])
         IN <<seq[m]>> \o sort_lines([i \in 1..(Len(seq) - 1) |-> IF i < m THEN seq[i] ELSE seq[i + 1]])

\* one pass of the while loop on the line at the pointer: st is [pointer,
\* current_bin, idx, parodies, characters, tags, raised]; current_bin "" is None
parse_metadata_line(st, lines) ==
    LET line == strip(lines[st.pointer + 1])
        hash == line # <<>> /\ Head(line) = "#"
        number == int_of(Tail(line), 0)
        current_bin == IF hash THEN st.current_bin
                       ELSE IF line = Parodies_header THEN "parodies"
                       ELSE IF line = Characters_header THEN "characters"
                       ELSE IF line = Tags_header THEN "tags"
                       ELSE st.current_bin
        appended == /\ current_bin # ""
                    /\ line # <<>>
                    /\ SubSeq(lower_str(line), 1, Len(line) - 1) # bin_text(current_bin)
        st1 == [st EXCEPT !.pointer = @ + 1, !.current_bin = current_bin,
                          !.idx = IF hash THEN <<number.value>> ELSE @]
    IN IF hash /\ (Tail(line) = <<>> \/ ~number.ok) THEN [st EXCEPT !.raised = "ValueError"]
       ELSE IF appended THEN [st1 EXCEPT ![current_bin] = Append(@, line)]
       ELSE st1

\* lines 3 and on of the metadata file
MetadataLines ==
    {Parodies_header, Characters_header, Tags_header, <<"#", "1">>, <<"#">>, a, <<" ", "B">>, <<>>,
     <<"t", "a", "g", "s", "x">>}

RECURSIVE lines_up_to(_)
lines_up_to(n) ==
    IF n = 0 THEN {<<>>}
    ELSE lines_up_to(n - 1) \cup {Append(ls, l) : ls \in {x \in lines_up_to(n - 1) : Len(x) = n - 1}, l \in MetadataLines}

\* the first two lines are read before the loop: full_name and full_name_org
InitMetadata ==
    /\ \E body \in lines_up_to(MaxLines) :
          call = [op |-> "Doujin.parse_metadata", lines |-> <<title, <<>>>> \o body]
    /\ result = [pointer |-> 2, current_bin |-> "", idx |-> <<>>, raised |-> "",
                 parodies |-> <<>>, characters |-> <<>>, tags |-> <<>>]
    /\ status = "reading"
    /\ nops = 0
    /\ doujinshi = {} /\ page = {} /\ item = EmptyDB.item /\ m2m = EmptyDB.m2m
    /\ pre = EmptyDB

ParseMetadataLine ==
    /\ status = "reading"
    /\ result.pointer < Len(call.lines)
    /\ result' = parse_metadata_line(result, call.lines)
    /\ status' = IF result'.raised # "" THEN "raised" ELSE "reading"
    /\ UNCHANGED <<doujinshi, page, item, m2m, pre, call, nops>>

\* after the loop the three lists are sorted and the dict is returned
ParseMetadataReturn ==
    /\ status = "reading"
    /\ result.pointer = Len(call.lines)
    /\ result' = [result EXCEPT !.parodies = sort_lines(@), !.characters = sort_lines(@), !.tags = sort_lines(@)]
    /\ status' = "returned"
    /\ UNCHANGED <<doujinshi, page, item, m2m, pre, call, nops>>

NextMetadata == ParseMetadataLine \/ ParseMetadataReturn

SpecMetadata == InitMetadata /\ [][NextMetadata]_vars

(***************************************************************************)
(* Properties                                                              *)
(***************************************************************************)
Stored(D, id) == \E d \in D.doujinshi : d.id = id

ItemNames(D, c) == {r.name : r \in D.item[c]}

Members(D, c, item_id) == {m \in D.m2m[c] : m.item_id = item_id}

\* C1: after any sequence of manager operations, every taxonomy item of each
\* of the six categories has a stored count, equal to the number of membership
\* rows that reference the item.
C1_CountsMatchMemberships ==
    \A c \in Categories : \A r \in item[c] :
        c \in HasCountColumn /\ r.count = Cardinality(Members(DB, c, r.id))

TransactionalOps ==
    {"insert_doujinshi", "add_pages_to_doujinshi", "remove_all_pages_from_doujinshi", "add_item_to_doujinshi",
     "remove_item_from_doujinshi", "update_column_of_doujinshi", "remove_doujinshi"}

\* C3: when insert_doujinshi, add_pages_to_doujinshi, a link or unlink
\* operation, a field update or remove_doujinshi returns a status other than
\* OK, the works, pages, taxonomy rows, memberships and counts are what they
\* were before the call.
C3_FailedCallChangesNothing ==
    (call.op \in TransactionalOps /\ status # OK) => DB = pre

\* a page replacement that failed after its delete statement had removed rows
C3_Witness ==
    /\ call.op = "add_pages_to_doujinshi"
    /\ status = INTEGRITY_ERROR
    /\ \E r \in pre.page : r.doujinshi_id = call.id

\* C4: for every id, 0 and negative ids included, insert_doujinshi of a record
\* (one that validation lets through) whose id is already stored returns
\* ALREADY_EXISTS and leaves the catalog unchanged.
C4_StoredIdIsAlreadyExists ==
    (/\ call.op = "insert_doujinshi"
     /\ Stored(pre, call.d.id)
     /\ (call.disable_validation \/ validate_doujinshi(call.d, call.user_prompt, call.answer)))
        => (status = ALREADY_EXISTS /\ DB = pre)

\* C5: for every id, 0 and negative ids included, remove_doujinshi(id) returns
\* OK exactly when a work with that id is stored before the call and NOT_FOUND
\* exactly when none is.
C5_RemoveStatusTellsStored ==
    call.op = "remove_doujinshi" =>
        /\ status = OK <=> Stored(pre, call.id)
        /\ status = NOT_FOUND <=> ~Stored(pre, call.id)

\* C8: add_<category>_to_doujinshi(id, name) returns NOT_FOUND when the work
\* or the item is not stored, OK when both are stored and not linked, creating
\* that one membership row, and ALREADY_EXISTS when they are linked, creating
\* nothing; it never creates a taxonomy row.
C8_AddItemOutcome ==
    call.op = "add_item_to_doujinshi" =>
        LET item_id == item_id_by_name(pre, call.c, call.name)
            row == [doujinshi_id |-> call.id, item_id |-> item_id]
        IN /\ \A c \in Categories : ItemNames(DB, c) = ItemNames(pre, c)
           /\ (~Stored(pre, call.id) \/ item_id = 0) => (status = NOT_FOUND /\ m2m = pre.m2m)
           /\ (Stored(pre, call.id) /\ item_id # 0 /\ row \notin pre.m2m[call.c]) =>
                 (status = OK /\ m2m = [pre.m2m EXCEPT ![call.c] = @ \cup {row}])
           /\ (Stored(pre, call.id) /\ item_id # 0 /\ row \in pre.m2m[call.c]) =>
                 (status = ALREADY_EXISTS /\ m2m = pre.m2m)

\* C9: remove_<category>_from_doujinshi(id, name) returns OK exactly when the
\* work, the item and a membership row between them all exist, and then
\* deletes that one membership row, the item staying stored with its count
\* one lower; otherwise it returns NOT_FOUND and changes nothing.
C9_RemoveItemOutcome ==
    call.op = "remove_item_from_doujinshi" =>
        LET item_id == item_id_by_name(pre, call.c, call.name)
            row == [doujinshi_id |-> call.id, item_id |-> item_id]
            linked == Stored(pre, call.id) /\ item_id # 0 /\ row \in pre.m2m[call.c]
        IN /\ status = OK <=> linked
           /\ status = OK =>
                 /\ m2m = [pre.m2m EXCEPT ![call.c] = @ \ {row}]
                 /\ \E r \in pre.item[call.c] :
                       r.id = item_id /\ [r EXCEPT !.count = @ - 1] \in item[call.c]
           /\ status # OK => (status = NOT_FOUND /\ DB = pre)

PagesOf(D, id) == {r \in D.page : r.doujinshi_id = id}

\* C10: after add_pages_to_doujinshi(id, L) returns OK for a list L of distinct
\* filenames, get_doujinshi(id) returns pages equal to L; with L empty or None,
\* or through remove_all_pages_from_doujinshi, the call on a stored work
\* returns OK and the work has no pages.
C10_PagesAreReplaced ==
    /\ (call.op = "add_pages_to_doujinshi" /\ status = OK /\ call.pages # <<>> /\ ~has_duplicates(call.pages)) =>
          /\ get_doujinshi(DB, call.id).kind = "dict"
          /\ get_doujinshi(DB, call.id).pages = call.pages
    /\ (/\ \/ call.op = "remove_all_pages_from_doujinshi"
           \/ (call.op = "add_pages_to_doujinshi" /\ call.pages = <<>>)
        /\ Stored(pre, call.id)) =>
          (status = OK /\ PagesOf(DB, call.id) = {})

\* C11: add_pages_to_doujinshi(id, L) returns NOT_FOUND when no work has that
\* id; for a stored work and a list L holding a filename twice it returns
\* INTEGRITY_ERROR and the work keeps its previous pages in their order.
C11_AddPagesErrors ==
    call.op = "add_pages_to_doujinshi" =>
        /\ ~Stored(pre, call.id) => status = NOT_FOUND
        /\ (Stored(pre, call.id) /\ has_duplicates(call.pages)) =>
              (status = INTEGRITY_ERROR /\ PagesOf(DB, call.id) = PagesOf(pre, call.id))

normalized_name(name) == validate_and_normalize_string("name", name)

\* C12: in each category, insert_<category>(a) of a name that is not stored
\* returns OK, insert_<category>(b) right after it, with b normalizing to the
\* same string as a, returns ALREADY_EXISTS, and the category then holds
\* exactly one row of that normalized name, with count 0.
C12_SameNormalizedNameOnce ==
    [][(/\ call.op = "insert_item" /\ status = OK
        /\ call'.op = "insert_item" /\ call'.c = call.c
        /\ normalized_name(call'.name).ok
        /\ normalized_name(call'.name).value = normalized_name(call.name).value)
       => (/\ status' = ALREADY_EXISTS
           /\ Cardinality({r \in item'[call.c] : r.name = normalized_name(call.name).value}) = 1
           /\ \A r \in item'[call.c] : r.name = normalized_name(call.name).value =>
                 (call.c \in HasCountColumn /\ r.count = 0))]_vars

\* C13: insert_<category>(v) with v empty, whitespace-only, None or not a
\* string returns EXCEPTION, which is classified fatal, and inserts no row.
C13_InvalidNameIsFatal ==
    (call.op = "insert_item" /\ (~IsStr(call.name) \/ strip(call.name) = <<>>)) =>
        (status = EXCEPTION /\ is_fatal(status) /\ status # OK /\ DB = pre)

\* a whitespace-only name was refused
C13_Witness ==
    call.op = "insert_item" /\ call.name = blank /\ status = EXCEPTION /\ item = pre.item

C15_InsertedWorkIsReadBack ==
    /\ (call.op = "insert_doujinshi" /\ status = OK) =>
          LET r == call.d
              got == get_doujinshi(DB, r.id)
          IN /\ got.kind = "dict"
             /\ got.scalars = [id |-> r.id, full_name |-> r.full_name,
                                full_name_original |-> r.full_name_original, pretty_name |-> r.pretty_name,
                                pretty_name_original |-> r.pretty_name_original, note |-> r.note,
                                path |-> as_posix(r.path)]
             /\ got.pages = r.pages
             /\ \A c \in Categories :
                   /\ {nc[1] : nc \in got.items[c]} = Range(r[relation_name[c]])
                   /\ \A nc \in got.items[c] : \E x \in item[c] : x.name = nc[1] /\ x.count = nc[2]
    /\ \A id \in Ids : ~Stored(DB, id) => get_doujinshi(DB, id).kind = "None"

\* C16: for all id_start and id_end, 0 and negative values included,
\* get_doujinshi_in_range(id_start, id_end) returns exactly the stored works
\* with id_start <= id <= id_end, each with its pages in order and its linked
\* names per category; with id_end omitted, every work with id >= id_start.
C16_RangeIsInclusive ==
    \A id_start \in RangeIds :
        /\ \A id_end \in RangeIds :
              {w.scalars.id : w \in get_doujinshi_in_range(DB, id_start, TRUE, id_end)}
                  = {d.id : d \in {x \in doujinshi : id_start <= x.id /\ x.id <= id_end}}
        /\ {w.scalars.id : w \in get_doujinshi_in_range(DB, id_start, FALSE, 0)}
              = {d.id : d \in {x \in doujinshi : id_start <= x.id}}
        /\ \A w \in get_doujinshi_in_range(DB, id_start, FALSE, 0) :
              /\ w.scalars \in doujinshi
              /\ w.pages = filenames_in_order(PagesOf(DB, w.scalars.id))
              /\ \A c \in Categories :
                    w.items[c] = {r.name : r \in {x \in item[c] : Members(DB, c, x.id) \cap
                                     {[doujinshi_id |-> w.scalars.id, item_id |-> x.id]} # {}}}

\* C17: get_count_of_<category>(names) returns a mapping of exactly the
\* requested names that are stored, each to its stored count, ordered by
\* name; a name that is not stored is absent, an empty request gives an empty
\* mapping.
C17_CountsOfStoredNames ==
    \A c \in Categories : \A names \in NameRequests :
        LET got == _get_count_by_name(DB, c, names)
        IN /\ got.kind = "dict"
           /\ {nc[1] : nc \in Range(got.value)} = Range(names) \cap ItemNames(DB, c)
           /\ Len(got.value) = Cardinality(Range(names) \cap ItemNames(DB, c))
           /\ \A nc \in Range(got.value) : \E r \in item[c] : r.name = nc[1] /\ r.count = nc[2]
           /\ \A i, j \in 1..Len(got.value) : i < j => name_less(got.value[i][1], got.value[j][1])

\* C18: update_count_of_<category>, for its category, and update_count_of_all,
\* for all six, set every item's count to the number of membership rows that
\* reference it, and change no work, page, membership row or name.
C18_UpdateCountRecounts ==
    call.op \in {"update_count_of", "update_count_of_all"} =>
        /\ \A c \in (IF call.op = "update_count_of" THEN {call.c} ELSE Categories) :
              \A r \in item[c] : c \in HasCountColumn /\ r.count = Cardinality(Members(DB, c, r.id))
        /\ doujinshi = pre.doujinshi /\ page = pre.page /\ m2m = pre.m2m
        /\ \A c \in Categories : ItemNames(DB, c) = ItemNames(pre, c)

\* C21: for every record that validate_doujinshi accepts with user_prompt
\* False (no errors, warnings allowed), whose text fields are all non-blank
\* strings and whose id and path are not stored, insert_doujinshi(record,
\* user_prompt=False) returns OK and the work is stored with its links and
\* its pages.
C21_AcceptedRecordIsInserted ==
    (/\ call.op = "insert_doujinshi"
     /\ ~call.user_prompt /\ ~call.disable_validation
     /\ validation_raises(call.d) = ""
     /\ validate_doujinshi(call.d, FALSE, "n")
     /\ \A f \in text_columns : is_non_empty_str(call.d[f])
     /\ ~Stored(pre, call.d.id)
     /\ \A x \in pre.doujinshi : x.path # as_posix(call.d.path))
    => /\ status = OK
       /\ Stored(DB, call.d.id)
       /\ filenames_in_order(PagesOf(DB, call.d.id)) = call.d.pages
       /\ \A c \in Categories :
             {x.name : x \in {y \in item[c] : [doujinshi_id |-> call.d.id, item_id |-> y.id] \in m2m[c]}}
                 = {normalized_name(n).value : n \in Range(call.d[relation_name[c]])}

\* C22: update_<field>_of_doujinshi(id, v) for an existing work and a value v
\* that is empty or whitespace-only never returns OK, for any of the six
\* fields: it returns INTEGRITY_ERROR and the stored field keeps its value.
C22_BlankUpdateIsRejected ==
    (/\ call.op = "update_column_of_doujinshi"
     /\ Stored(pre, call.id)
     /\ IsStr(call.value) /\ strip(call.value) = <<>>)
    => /\ status = INTEGRITY_ERROR
       /\ doujinshi = pre.doujinshi

\* C23: insert_doujinshi of a record in which one of the text fields
\* (full_name, full_name_original, pretty_name, pretty_name_original, note,
\* path) is a blank or whitespace-only string, with validation enabled or
\* disabled, reports the rejection as VALIDATION_FAILED or INTEGRITY_ERROR,
\* never as EXCEPTION and never as a raised error.
C23_BlankTextIsRejectedQuietly ==
    (/\ call.op = "insert_doujinshi"
     /\ validation_raises(call.d) = ""
     /\ \E f \in text_columns : IsStr(call.d[f]) /\ strip(call.d[f]) = <<>>)
    => status \in {VALIDATION_FAILED, INTEGRITY_ERROR}

\* C24: every public operation of the manager returns a status (or its
\* documented result) for every argument value, None, values that are not
\* strings and records with missing keys included, and never lets an
\* exception reach the caller.
C24_NoExceptionEscapes ==
    /\ status \in DatabaseStatus
    /\ \A id \in Ids : get_doujinshi(DB, id).kind \in {"None", "dict"}

(***************************************************************************)
(* Properties of the listing's cover and language, under SpecCover         *)
(***************************************************************************)
\* the language ids linked to the work id
LanguagesOf(D, id) == {m.item_id : m \in {x \in D.m2m["language"] : x.doujinshi_id = id}}

\* the entries of every page of the listing, for each page size
listed_entries(D) ==
    UNION {Range(get_doujinshi_in_page(D, page_size, page_number, n)) :
              page_size \in 1..MaxPageSize, page_number \in 1..Cardinality(D.doujinshi),
              n \in {0, Cardinality(D.doujinshi)}}

\* C25: after any sequence of link, unlink and page-replace operations, every
\* entry returned by get_doujinshi_in_page carries as language_id the smallest
\* id among the languages linked to the work (None, modelled as 0, when none
\* is linked) and as cover_filename the filename of the page at position 1
\* (None when the work has no pages).
C25_ListingCoverAndLanguage ==
    /\ {e.id : e \in listed_entries(DB)} = {d.id : d \in doujinshi}
    /\ \A e \in listed_entries(DB) :
          /\ \/ LanguagesOf(DB, e.id) = {} /\ e.language_id = 0
             \/ /\ e.language_id \in LanguagesOf(DB, e.id)
                /\ \A l \in LanguagesOf(DB, e.id) : e.language_id <= l
          /\ e.cover_filename = IF PagesOf(DB, e.id) = {} THEN None
                                ELSE Head(filenames_in_order(PagesOf(DB, e.id)))

\* a page replace returned OK on a work that has two languages linked
C25_Witness ==
    /\ call.op = "add_pages_to_doujinshi" /\ status = OK /\ call.pages = <<f2, f1>>
    /\ Cardinality(LanguagesOf(DB, call.id)) = 2
    /\ \E e \in listed_entries(DB) : e.id = call.id /\ e.language_id = 1 /\ e.cover_filename = f2

\* C26: create_database on an empty store leaves the languages english,
\* japanese, chinese and textless with the ids 1, 2, 3 and 4; create_database
\* called again at any later point returns OK and changes nothing.
C26_CreateDatabaseIsIdempotent ==
    /\ (call.op = "create_database" /\ nops = 0) =>
          /\ {<<r.id, r.name>> : r \in item["language"]}
                = {<<1, english>>, <<2, japanese>>, <<3, chinese>>, <<4, textless>>}
          /\ doujinshi = {} /\ page = {}
    /\ (call.op = "create_database" /\ nops > 0) => status = OK /\ DB = pre

\* create_database is called again on a catalog that holds a work linked to a language
C26_Witness ==
    /\ call.op = "create_database" /\ nops > 0 /\ status = OK
    /\ doujinshi # {}
    /\ \E r \in item["language"] : r.id = 1 /\ r.name = english /\ r.count > 0

\* C27: update_<field>_of_doujinshi returns NOT_FOUND, and changes nothing,
\* exactly when no work has that id, for every integer id, 0 included; when it
\* returns OK only that one field of that one work changes; update_path to a
\* path that is stored for another work returns INTEGRITY_ERROR, so that no
\* two works share a stored path.
C27_UpdateOutcome ==
    /\ (call.op = "update_column_of_doujinshi" /\ IsStr(call.value)) =>
          /\ (status = NOT_FOUND) <=> ~Stored(pre, call.id)
          /\ status = NOT_FOUND => DB = pre
          /\ status = OK =>
                /\ page = pre.page /\ item = pre.item /\ m2m = pre.m2m
                /\ {d \in doujinshi : d.id # call.id} = {d \in pre.doujinshi : d.id # call.id}
                /\ \E old \in pre.doujinshi, new \in doujinshi :
                      /\ old.id = call.id /\ new.id = call.id
                      /\ \A col \in (text_columns \cup {"id"}) \ {call.column} : new[col] = old[col]
          /\ (/\ call.column = "path" /\ IsStr(call.value) /\ Stored(pre, call.id)
              /\ \E o \in pre.doujinshi : o.id # call.id /\ o.path = as_posix(call.value))
             => status = INTEGRITY_ERROR
    /\ \A d1, d2 \in doujinshi : d1.path = d2.path => d1 = d2

(***************************************************************************)
(* Properties of a read next to writers, under SpecRange                   *)
(***************************************************************************)
\* C28: a read call that runs while writers commit returns, for each work,
\* either nothing or a record equal to that work's complete committed state
\* at one single moment: never data that was not committed, never a part of
\* the pages or links of one write.
C28_ReadIsOneSnapshot ==
    /\ status # "raised"
    /\ status = "returned" =>
          \A w \in result.value :
              \E i \in 1..Len(pre) :
                  w \in get_doujinshi_in_range(pre[i], call.id_start, call.has_end, call.id_end)

(***************************************************************************)
(* Properties of the legacy Database class, under SpecLegacy               *)
(***************************************************************************)
\* C29: the legacy Database.remove_doujinshi deletes nothing unless the
\* operator's answer to the confirmation prompt is exactly 'Y': with any other
\* answer the catalog is unchanged and the status is not OK; with 'Y' the
\* work, its pages and its membership rows are deleted if the work exists.
C29_RemoveNeedsConfirmation ==
    call.op = "Database.remove_doujinshi" =>
        /\ call.confirm # "Y" => DB = pre /\ status # OK
        /\ (call.confirm = "Y" /\ Stored(pre, call.id)) =>
              /\ status = OK
              /\ doujinshi = {d \in pre.doujinshi : d.id # call.id}
              /\ page = {r \in pre.page : r.doujinshi_id # call.id}
              /\ \A c \in Categories : m2m[c] = {m \in pre.m2m[c] : m.doujinshi_id # call.id}
              /\ item = pre.item
        /\ (call.confirm = "Y" /\ ~Stored(pre, call.id)) => DB = pre /\ status # OK

\* a confirmed removal of a work that had pages and a language link, next to
\* another work that keeps its own
C29_Witness ==
    /\ call.op = "Database.remove_doujinshi" /\ call.confirm = "Y" /\ status = OK
    /\ PagesOf(pre, call.id) # {} /\ PagesOf(DB, call.id) = {}
    /\ \E m \in pre.m2m["language"] : m.doujinshi_id = call.id
    /\ \E d \in doujinshi : PagesOf(DB, d.id) # {} /\ \E m \in m2m["language"] : m.doujinshi_id = d.id

(***************************************************************************)
\* C33: after any sequence of manager operations, the pages of each work
\* have pairwise distinct filenames, and their order numbers are exactly
\* 1, 2, .., n with no gap and no repeat, n the number of pages of the work.
C33_PagesAreNumbered ==
    \A id \in {r.doujinshi_id : r \in page} :
        LET rows == {r \in page : r.doujinshi_id = id}
            n == Cardinality(rows)
        IN /\ \A r1, r2 \in rows : r1 # r2 => r1.filename # r2.filename
           /\ \A r1, r2 \in rows : r1 # r2 => r1.order_number # r2.order_number
           /\ {r.order_number : r \in rows} = 1..n

\* the two pages of a stored work were replaced, and after that a list that
\* repeats a filename was refused
C33_Witness ==
    /\ call.op = "add_pages_to_doujinshi" /\ call.pages = <<f1, f1>> /\ status = INTEGRITY_ERROR
    /\ PagesOf(DB, call.id) = page_rows(call.id, <<f2, f1>>)
    /\ PagesOf(pre, call.id) = PagesOf(DB, call.id)

(***************************************************************************)
\* C34: after any sequence of insert and update_<column>_of_doujinshi
\* operations, every stored text value is in normalized form: taxonomy names
\* are trimmed, whitespace-collapsed and lower-case; each work's full name,
\* original full name, pretty names, note and path are non-blank, trimmed and
\* whitespace-collapsed, and path is in POSIX form.
C34_StoredTextIsNormalized ==
    /\ \A c \in Categories : \A r \in item[c] :
          r.name # <<>> /\ r.name = collapse(strip(r.name)) /\ r.name = lower_str(r.name)
    /\ \A d \in doujinshi : \A col \in text_columns :
          /\ IsStr(d[col]) /\ strip(d[col]) # <<>>
          /\ d[col] = collapse(strip(d[col]))
          /\ col = "path" => d[col] = as_posix(d[col])

(***************************************************************************)
\* C35: under any interleaving of concurrently executing manager write
\* operations, once all calls have returned every item's count equals its
\* number of membership rows and no duplicate work id, path or membership
\* row exists, also when two calls race on the same work and item after both
\* have passed their existence checks.
C35_ConcurrentWritesKeepCounts ==
    (\A s \in Callers : status[s] \in DatabaseStatus) =>
        /\ \A c \in Categories : \A r \in item[c] :
              c \in HasCountColumn /\ r.count = Cardinality(Members(DB, c, r.id))
        /\ \A d1, d2 \in doujinshi : d1 # d2 => d1.id # d2.id /\ d1.path # d2.path

(***************************************************************************)
\* C36: the link operations look the item up by the name exactly as given:
\* add_<category>_to_doujinshi(id, name) with a name that differs from a
\* stored item's normalized name only in letter case or whitespace returns
\* NOT_FOUND and links nothing, although insert_<category>(name) with the
\* same argument reports ALREADY_EXISTS.
C36_LinkLooksUpTheRawName ==
    (/\ call.op = "add_item_to_doujinshi"
     /\ normalized_name(call.name).ok
     /\ normalized_name(call.name).value # call.name
     /\ normalized_name(call.name).value \in ItemNames(pre, call.c)) =>
        /\ status = NOT_FOUND
        /\ DB = pre
        /\ _insert_item(pre, call.c, call.name).status = ALREADY_EXISTS

\* the artist a is stored and the work is stored, and the link is asked for
\* under the name " A"
C36_Witness ==
    /\ call.op = "add_item_to_doujinshi" /\ call.c = "artist" /\ call.name = <<" ", "A">>
    /\ a \in ItemNames(pre, "artist")
    /\ Stored(pre, call.id) /\ call.id # 0
    /\ status = NOT_FOUND /\ m2m = pre.m2m

(***************************************************************************)
(* Properties of the listing, under SpecPage                               *)
(***************************************************************************)
ids_of(list) == [i \in 1..Len(list) |-> list[i].id]

ids_desc == reversed(sorted_asc({d.id : d \in doujinshi}))

RECURSIVE pages_up_to(_, _, _)
pages_up_to(k, page_size, n_doujinshi) ==
    IF k = 0 THEN <<>>
    ELSE pages_up_to(k - 1, page_size, n_doujinshi) \o get_doujinshi_in_page(DB, page_size, k, n_doujinshi)

\* C6: for N stored works, page size S >= 1 and 1 <= p <= ceil(N/S), the
\* listing with n_doujinshi = N and the listing without it are the same list,
\* the works at positions (p-1)*S+1 .. min(p*S, N) of the descending-id order;
\* pages 1..ceil(N/S) concatenated are every stored id once, descending.
C6_PagesPartitionTheCatalog ==
    LET N == Cardinality(doujinshi)
        S == call.page_size
        p == call.page_number
        last == IF p * S < N THEN p * S ELSE N
    IN (status = "returned" /\ 1 <= p /\ p <= ceil_div(N, S)) =>
          /\ ids_of(result.value) = SubSeq(ids_desc, (p - 1) * S + 1, last)
          /\ get_doujinshi_in_page(DB, S, p, N) = get_doujinshi_in_page(DB, S, p, 0)
          /\ ids_of(pages_up_to(ceil_div(N, S), S, call.n_doujinshi)) = ids_desc

\* a page of the back half that is not the last page, listed with the count
C6_Witness ==
    /\ status = "returned"
    /\ call.n_doujinshi = Cardinality(doujinshi)
    /\ call.n_doujinshi >= 4
    /\ call.page_number >= 1
    /\ call.page_number < ceil_div(call.n_doujinshi, call.page_size)
    /\ ~page_window(call.page_size, call.page_number, call.n_doujinshi).desc
    /\ Len(result.value) = call.page_size

\* C7: for page size S >= 1 and N stored works the listing is empty for every
\* page number p < 1 and every p > ceil(N/S), with n_doujinshi = N and without.
C7_OutOfRangePageIsEmpty ==
    (/\ status = "returned"
     /\ \/ call.page_number < 1
        \/ call.page_number > ceil_div(Cardinality(doujinshi), call.page_size))
        => result.value = <<>>

bad_text(d, f) == f \notin DOMAIN d \/ ~is_non_empty_str(d[f])

\* C20: validate_doujinshi returns False, for both values of user_prompt,
\* whenever the id is not an integer or is a boolean, full_name or path is
\* missing, not a string or whitespace-only, a taxonomy list or the pages
\* list holds a duplicate, or a taxonomy list holds a name with an upper-case
\* character.
C20_ErrorsReturnFalse ==
    (/\ status # "called"
     /\ \/ ("id" \in DOMAIN call.d /\ id_type(call.d) # "int")
        \/ bad_text(call.d, "full_name")
        \/ bad_text(call.d, "path")
        \/ \E f \in list_fields \cap DOMAIN call.d : IsList(call.d[f]) /\ has_duplicates(call.d[f])
        \/ \E c \in Categories :
              /\ relation_name[c] \in DOMAIN call.d
              /\ IsList(call.d[relation_name[c]])
              /\ \E v \in Range(call.d[relation_name[c]]) : IsStr(v) /\ v # lower_str(v))
        => (status = "returned" /\ result.value = FALSE)

C31_JsonRoundTrip ==
    (status = "loaded" /\ pre.saved # <<>> /\ call.self = Doujinshi_init) =>
        \A k \in json_keys : result[k] = pre.saved[1][k]

(***************************************************************************)
\* C32: whenever load_from_json fails (file missing, invalid JSON, missing
\* key, or any other error), the object it returns is in the default reset
\* state with id -1 and no data, whatever the object held before the call.
C32_FailedLoadResets ==
    (status = "loaded" /\ Doujinshi_load_error(pre.file) # "") => result = Doujinshi_init

(***************************************************************************)
\* C37: in the legacy data-access layer, after any sequence of
\* insert_doujinshi, add_pages_to_doujinshi and remove_all_pages_from_doujinshi,
\* a work's cover_page_id is NULL if the work has no pages and otherwise
\* references that same work's page with order number 1; it never references
\* a deleted page or a page of another work.
C37_LegacyCoverIsFirstPage ==
    \A d \in doujinshi :
        IF PagesOf(DB, d.id) = {} THEN d.cover_page_id = <<>>
        ELSE /\ d.cover_page_id # <<>>
             /\ \E r \in PagesOf(DB, d.id) : r.id = d.cover_page_id[1] /\ r.order_number = 1

(***************************************************************************)
\* the lines the three lists hold when the file is read as C38 says, from
\* line k on with the section bin active: [parodies, characters, tags]
RECURSIVE sections_as_read(_, _, _, _)
sections_as_read(lines, k, bin, acc) ==
    IF k > Len(lines) THEN acc
    ELSE LET line == strip(lines[k])
         IN IF line = Parodies_header THEN sections_as_read(lines, k + 1, "parodies", acc)
            ELSE IF line = Characters_header THEN sections_as_read(lines, k + 1, "characters", acc)
            ELSE IF line = Tags_header THEN sections_as_read(lines, k + 1, "tags", acc)
            ELSE IF line = <<>> \/ Head(line) = "#" \/ bin = "" THEN sections_as_read(lines, k + 1, bin, acc)
            ELSE sections_as_read(lines, k + 1, bin, [acc EXCEPT ![bin] = Append(@, line)])

\* the number of times v occurs in seq
occurrences(seq, v) == Cardinality({i \in 1..Len(seq) : seq[i] = v})

\* C38: Doujin.parse_metadata, read line by line from the third line on: a
\* section header line switches the active section and is added to no list,
\* the '#<id>' line sets the identity and is added to no list, every other
\* non-empty line is appended to exactly the section active at that point
\* (lines before the first header are dropped), and each of the three lists
\* is emitted sorted.
C38_MetadataSections ==
    status = "returned" =>
        LET expected == sections_as_read(call.lines, 3, "",
                                         [parodies |-> <<>>, characters |-> <<>>, tags |-> <<>>])
        IN \A bin \in bins :
              /\ \A v \in Range(result[bin]) \cup Range(expected[bin]) :
                    occurrences(result[bin], v) = occurrences(expected[bin], v)
              /\ \A i, j \in 1..Len(result[bin]) : i < j => ~name_less(result[bin][j], result[bin][i])

====
